---- MODULE Spec2Model ----
(***************************************************************************)
(* A model of pymonalisa: the session registry (cdm.CDM), the guest        *)
(* session (cdm.Session), the license value (license.License) and the key  *)
(* value (types.Key).                                                      *)
(*                                                                         *)
(* Text is a sequence of code points, a byte string a sequence of 0..255.  *)
(* The guest binary is opaque: what a guest export returns, whether it     *)
(* traps and what it leaves in the key region is chosen by the environment.*)
(***************************************************************************)
EXTENDS Integers, Sequences, FiniteSets, TLC

\* ------------------------------------------------------------------ bounds

\* Identifiers uuid4 can draw, i.e. Session objects ever constructed.
MaxSessions == 2
\* Keys the sessions hold together.
MaxKeys == 2
MaxText == 5
MaxThreads == 2
MaxData == 3
MaxArgs == 2
MaxCalls == 2

\* ------------------------------------------------------- program constants

DYNAMIC_BASE == 6065008
DYNAMICTOP_PTR == 821968
LICENSE_KEY_OFFSET == 6065164
LICENSE_KEY_LENGTH == 16
\* wasmtime.Limits(256, 256): the memory has 256 pages of 64 KiB, for good.
MEMORY_PAGES == 256
MemoryBytes == MEMORY_PAGES * 65536

None == "None"

\* types.KeyType
KeyType == {"CONTENT", "SIGNING", "OTT", "OPERATOR_SESSION"}

\* types.Key, as parse_license builds it (permissions keeps its default).
\* Key is a mutable dataclass and lists share Key objects: ref is the
\* object's identity, which two lists holding the same Key agree on.
Key(ref, kid, key, type) ==
    [ref |-> ref, kid |-> kid, key |-> key, type |-> type,
     permissions |-> None]

\* ------------------------------------------------------------ byte helpers

RECURSIVE Pow2(_)
Pow2(n) == IF n = 0 THEN 1 ELSE 2 * Pow2(n - 1)

\* x >> n and x & (2^n - 1) on naturals
Shr(x, n) == x \div Pow2(n)
LowBits(x, n) == x % Pow2(n)

\* bytes.hex(): two hexadecimal digits (0..15) per byte, high digit first
Hex(bs) ==
    [i \in 1..(2 * Len(bs)) |->
        IF i % 2 = 1 THEN bs[(i + 1) \div 2] \div 16 ELSE bs[i \div 2] % 16]

\* bytes.fromhex(): two digits make one byte
FromHex(ds) ==
    [i \in 1..(Len(ds) \div 2) |-> 16 * ds[2 * i - 1] + ds[2 * i]]

\* str.encode("utf-8"), one code point
Utf8Char(c) ==
    IF c < 128 THEN <<c>>
    ELSE IF c < 2048 THEN <<192 + Shr(c, 6), 128 + LowBits(c, 6)>>
    ELSE IF c < 65536
        THEN <<224 + Shr(c, 12), 128 + LowBits(Shr(c, 6), 6), 128 + LowBits(c, 6)>>
    ELSE <<240 + Shr(c, 18), 128 + LowBits(Shr(c, 12), 6),
           128 + LowBits(Shr(c, 6), 6), 128 + LowBits(c, 6)>>

RECURSIVE Utf8Encode(_)
Utf8Encode(s) ==
    IF s = <<>> THEN <<>> ELSE Utf8Char(Head(s)) \o Utf8Encode(Tail(s))

\* bytes.decode("ascii", errors="ignore"): bytes of 128 and more are dropped
AsciiIgnore(bs) == SelectSeq(bs, LAMBDA b : b < 128)

\* bytes.decode("utf-8") of text that base64 produced: it is ASCII
AsciiText(bs) == bs

\* ------------------------------------------------------------------ base64

\* The value of a character of the base64 alphabet, 64 for '=', 65 otherwise
B64Value(c) ==
    IF c \in 65..90 THEN c - 65
    ELSE IF c \in 97..122 THEN c - 71
    ELSE IF c \in 48..57 THEN c + 4
    ELSE IF c = 43 THEN 62
    ELSE IF c = 47 THEN 63
    ELSE IF c = 61 THEN 64
    ELSE 65

B64Char(v) ==
    IF v < 26 THEN v + 65
    ELSE IF v < 52 THEN v + 71
    ELSE IF v < 62 THEN v - 4
    ELSE IF v = 62 THEN 43
    ELSE 47

\* binascii.a2b_base64 without strict mode. Characters outside the alphabet
\* are skipped. A '=' ends the data when it completes a quad: the first one
\* after three data characters of a quad, the second one after two (counted
\* from the last data character). Data that ends inside a quad without such
\* padding is an error.
IsData(s, i) == B64Value(s[i]) < 64
IsPad(s, i) == B64Value(s[i]) = 64

\* The data characters before position i
DataBefore(s, i) == {j \in 1..(i - 1) : IsData(s, j)}

\* The '=' characters up to position i that follow the last data character
PadsAt(s, i) ==
    {j \in 1..i : IsPad(s, j) /\ \A k \in (j + 1)..i : ~IsData(s, k)}

\* Whether the '=' at position i ends the data
EndsData(s, i) ==
    /\ IsPad(s, i)
    /\ Cardinality(DataBefore(s, i)) % 4 >= 2
    /\ (Cardinality(DataBefore(s, i)) % 4) + Cardinality(PadsAt(s, i)) >= 4

\* The position decoding stops at (Len(s) + 1: it reads all of s)
StopAt(s) ==
    LET ends == {i \in 1..Len(s) : EndsData(s, i)} IN
    IF ends = {} THEN Len(s) + 1
    ELSE CHOOSE i \in ends : \A j \in ends : i <= j

\* The 6-bit values of the data characters before position n, in order
SixBits(s, n) ==
    LET kept == SelectSeq(SubSeq(s, 1, n - 1), LAMBDA c : B64Value(c) < 64)
    IN  [i \in 1..Len(kept) |-> B64Value(kept[i])]

\* The bytes that n six-bit values make: three from every four values, and
\* one or two from a last group of two or three
Pack(v) ==
    [j \in 1..((Len(v) \div 4) * 3 + (IF Len(v) % 4 >= 2 THEN (Len(v) % 4) - 1 ELSE 0)) |->
        LET g == 4 * ((j - 1) \div 3)
            r == (j - 1) % 3
        IN  IF r = 0 THEN v[g + 1] * 4 + (v[g + 2] \div 16)
            ELSE IF r = 1 THEN (v[g + 2] % 16) * 16 + (v[g + 3] \div 4)
            ELSE (v[g + 3] % 4) * 64 + v[g + 4]]

a2b_base64(s) ==
    LET stop == StopAt(s)
        v == SixBits(s, stop)
    IN  IF stop = Len(s) + 1 /\ Len(v) % 4 # 0
        THEN [ok |-> FALSE, bytes |-> <<>>]
        ELSE [ok |-> TRUE, bytes |-> Pack(v)]

\* base64.b64decode(s) of a str: a str with a non-ASCII character is refused
\* before any decoding.
b64decode(s) ==
    IF \E i \in 1..Len(s) : s[i] >= 128
    THEN [ok |-> FALSE, bytes |-> <<>>]
    ELSE a2b_base64(s)

\* base64.b64encode(bs), as text
RECURSIVE b64encode(_)
b64encode(bs) ==
    IF Len(bs) = 0 THEN <<>>
    ELSE IF Len(bs) = 1
    THEN <<B64Char(bs[1] \div 4), B64Char((bs[1] % 4) * 16), 61, 61>>
    ELSE IF Len(bs) = 2
    THEN <<B64Char(bs[1] \div 4),
           B64Char((bs[1] % 4) * 16 + bs[2] \div 16),
           B64Char((bs[2] % 16) * 4), 61>>
    ELSE <<B64Char(bs[1] \div 4),
           B64Char((bs[1] % 4) * 16 + bs[2] \div 16),
           B64Char((bs[2] % 16) * 4 + bs[3] \div 64),
           B64Char(bs[3] % 64)>> \o b64encode(SubSeq(bs, 4, Len(bs)))

\* ----------------------------------------------------------------- License

\* License.__init__ on a str
LicenseFromText_keeps_text(data) ==
    LET d == b64decode(data) IN
    IF d.ok
    THEN [data |-> d.bytes, data_b64 |-> data]
    ELSE [data |-> Utf8Encode(data), data_b64 |-> data]
LicenseFromText(data) ==
    LET d == b64decode(data) IN
    IF d.ok
    THEN [data |-> d.bytes, data_b64 |-> data]
    ELSE [data |-> Utf8Encode(data),
          data_b64 |-> AsciiText(b64encode(Utf8Encode(data)))]

\* License.__init__ on bytes
LicenseFromBytes(data) ==
    [data |-> data, data_b64 |-> AsciiText(b64encode(data))]

\* An input of License(): a str or bytes
License(x) ==
    IF x.kind = "str" THEN LicenseFromText(x.val) ELSE LicenseFromBytes(x.val)

\* -------------------------------------------------- correlation identifier

IsDigit(c) == c \in 48..57
IsAlnum(c) == c \in 48..57 \/ c \in 65..90

\* The first position from p on whose character is not of [A-Z0-9]
\* (Len(t) + 1 when the run reaches the end)
RunEnd(t, p) ==
    CHOOSE j \in p..(Len(t) + 1) :
        /\ \A k \in p..(j - 1) : IsAlnum(t[k])
        /\ (j = Len(t) + 1 \/ ~IsAlnum(t[j]))

\* "DCID-" at position i: the position after it, or 0
Literal(t, i) ==
    IF i + 4 <= Len(t) /\ SubSeq(t, i, i + 4) = <<68, 67, 73, 68, 45>>
    THEN i + 5 ELSE 0

\* [A-Z0-9]+- at position p: the position after the hyphen, or 0
AlnumDash(t, p) ==
    IF p = 0 THEN 0
    ELSE LET e == RunEnd(t, p) IN
         IF e > p /\ e <= Len(t) /\ t[e] = 45 THEN e + 1 ELSE 0

\* \d{n}- at position p: the position after the hyphen, or 0
DigitsDash(t, p, n) ==
    IF p = 0 \/ p + n > Len(t) THEN 0
    ELSE IF (\A k \in p..(p + n - 1) : IsDigit(t[k])) /\ t[p + n] = 45
         THEN p + n + 1 ELSE 0

\* The pattern of parse_license matched at position i: the position of the
\* match's last character, or 0. No class holds the hyphen, so every group
\* runs to the next hyphen and the last one as far as it can.
MatchEnd(t, i) ==
    LET p == DigitsDash(t, AlnumDash(t, DigitsDash(t,
                 DigitsDash(t, AlnumDash(t, AlnumDash(t, Literal(t, i))), 8),
                 6)), 10)
    IN  IF p = 0 THEN 0
        ELSE IF RunEnd(t, p) > p THEN RunEnd(t, p) - 1 ELSE 0

\* re.search(pattern, t): the leftmost match, m.group() in group
re_search(t) ==
    LET starts == {i \in 1..Len(t) : MatchEnd(t, i) # 0} IN
    IF starts = {} THEN [found |-> FALSE, group |-> <<>>]
    ELSE LET i == CHOOSE x \in starts : \A y \in starts : x <= y IN
         [found |-> TRUE, group |-> SubSeq(t, i, MatchEnd(t, i))]

\* ------------------------------------------------------------------- uuid

\* uuid.NAMESPACE_DNS.bytes
NAMESPACE_DNS ==
    <<107, 167, 184, 16, 157, 173, 17, 209, 128, 180, 0, 192, 79, 212, 48, 200>>

RECURSIVE WeightedSum(_, _, _)
WeightedSum(bs, j, k) ==
    IF j > Len(bs) THEN 0 ELSE (j + k) * bs[j] + WeightedSum(bs, j + 1, k)

\* hashlib.sha1(bs).digest()[:16]. SHA-1 is the standard library's; the model
\* keeps what parse_license relies on, a fixed function from the bytes to 16
\* bytes, and puts a weighted checksum in its place.
Sha1_16(bs) == [k \in 1..16 |-> (WeightedSum(bs, 1, k) + 31 * k) % 256]

\* uuid.uuid5(namespace, name).bytes: the digest with the version (5) and the
\* variant (RFC 4122) bits set
uuid5(namespace, name) ==
    LET h == Sha1_16(namespace \o Utf8Encode(name)) IN
    [k \in 1..16 |->
        IF k = 7 THEN 80 + (h[k] % 16)
        ELSE IF k = 9 THEN 128 + (h[k] % 64)
        ELSE h[k]]

\* uuid.UUID(int=0).bytes
NilUuid == [k \in 1..16 |-> 0]

\* parse_license, lines 190-198: the key identifier of a license text
KidOf_whole_text(license_str) ==
    LET d == b64decode(license_str)
        m == re_search(AsciiIgnore(d.bytes))
    IN  IF m.found THEN uuid5(NAMESPACE_DNS, AsciiIgnore(d.bytes)) ELSE NilUuid
KidOf(license_str) ==
    LET d == b64decode(license_str)
        m == re_search(AsciiIgnore(d.bytes))
    IN  IF m.found THEN uuid5(NAMESPACE_DNS, m.group) ELSE NilUuid

\* ------------------------------------------------------------------ inputs

\* What a caller hands to License(): a ticket as base64 text that holds the
\* correlation identifier DCID-A1-B2-20240101-123456-C3-1234567890-D4, and
\* raw ticket bytes without one.
TicketText ==
    [kind |-> "str",
     val |-> <<65, 73, 86, 69, 81, 48, 108, 69, 76, 85, 69, 120, 76, 85, 73,
        121, 76, 84, 73, 119, 77, 106, 81, 119, 77, 84, 65, 120, 76, 84,
        69, 121, 77, 122, 81, 49, 78, 105, 49, 68, 77, 121, 48, 120, 77,
        106, 77, 48, 78, 84, 89, 51, 79, 68, 107, 119, 76, 85, 81, 48, 65,
        65, 61, 61>>]
TicketBytes ==
    [kind |-> "bytes", val |-> <<0, 133, 110, 111, 32, 99, 105, 100, 255>>]

LicenseInputs == {TicketText, TicketBytes}

\* Raw tickets around correlation identifiers. CoreA and CoreB are the
\* identifiers DCID-A-B-20240101-123456-C-1234567890-D and
\* DCID-X9-Y-20231231-000000-Z-0987654321-W7; CoreShort has a date of seven
\* digits and CoreLower is CoreA in lower case, so neither is an identifier.
CoreA ==
    <<68, 67, 73, 68, 45, 65, 45, 66, 45, 50, 48, 50, 52, 48, 49, 48, 49, 45,
      49, 50, 51, 52, 53, 54, 45, 67, 45, 49, 50, 51, 52, 53, 54, 55, 56, 57,
      48, 45, 68>>
CoreB ==
    <<68, 67, 73, 68, 45, 88, 57, 45, 89, 45, 50, 48, 50, 51, 49, 50, 51, 49,
      45, 48, 48, 48, 48, 48, 48, 45, 90, 45, 48, 57, 56, 55, 54, 53, 52, 51,
      50, 49, 45, 87, 55>>
CoreShort ==
    <<68, 67, 73, 68, 45, 65, 45, 66, 45, 50, 48, 50, 52, 48, 49, 48, 45,
      49, 50, 51, 52, 53, 54, 45, 67, 45, 49, 50, 51, 52, 53, 54, 55, 56, 57,
      48, 45, 68>>
CoreLower ==
    <<100, 99, 105, 100, 45, 97, 45, 98, 45, 50, 48, 50, 52, 48, 49, 48, 49,
      45, 49, 50, 51, 52, 53, 54, 45, 99, 45, 49, 50, 51, 52, 53, 54, 55, 56,
      57, 48, 45, 100>>

\* A ticket handed over as bytes, with the substring that Python's re.search
\* finds in its ASCII text (<<>>: none). The surroundings: nothing; bytes
\* outside ASCII and NUL; a false start "DCID-" and a tail "-Q"; a byte
\* outside ASCII followed by "Z", which joins the identifier once the byte
\* is dropped; a second identifier after the first.
KidCase(pre, core, suf, match) ==
    [ticket |-> [kind |-> "bytes", val |-> pre \o core \o suf],
     match |-> match]
KidCases ==
    {KidCase(<<>>, CoreA, <<>>, CoreA),
     KidCase(<<0, 133>>, CoreA, <<0>>, CoreA),
     KidCase(<<68, 67, 73, 68, 45>>, CoreA, <<45, 81>>, CoreA),
     KidCase(<<>>, CoreA, <<255, 90>>, CoreA \o <<90>>),
     KidCase(<<>>, CoreB, <<>>, CoreB),
     KidCase(<<>>, CoreA, <<0>> \o CoreB, CoreA),
     KidCase(<<>>, CoreShort, <<>>, <<>>),
     KidCase(<<>>, CoreLower, <<>>, <<>>)}
KidTickets == {c.ticket : c \in KidCases}

\* Tables of values computed once: pairs <<argument, value>>
Lookup(table, k) == (CHOOSE p \in table : p[1] = k)[2]

\* License(x) for the inputs of the model
LicenseTable == {<<x, License(x)>> : x \in LicenseInputs \cup KidTickets}
LicenseOf(x) == Lookup(LicenseTable, x)

\* The license values the calls are made with, and their base64 texts
Licenses == {p[2] : p \in LicenseTable}
LicenseTexts == {l.data_b64 : l \in Licenses}

\* b64decode and KidOf on those texts
DecodedTable == {<<s, b64decode(s)>> : s \in LicenseTexts}
KidTable == {<<s, KidOf(s)>> : s \in LicenseTexts}

\* The key-type argument of get_keys; Omitted: the caller passes none
Omitted == "Omitted"
KeyTypeArgs == {Omitted, None, "CONTENT", "SIGNING"}

\* ------------------------------------------------------------------- guest

\* The part of linear memory the model keeps: the key region and the byte on
\* either side of it.
Window == (LICENSE_KEY_OFFSET - 1)..(LICENSE_KEY_OFFSET + LICENSE_KEY_LENGTH)
ZeroedMemory == [a \in Window |-> 0]

\* The memory with a key stored at LICENSE_KEY_OFFSET
WithKey(key) ==
    [a \in Window |->
        IF a - LICENSE_KEY_OFFSET + 1 \in 1..Len(key)
        THEN key[a - LICENSE_KEY_OFFSET + 1] ELSE 0]

\* What monalisa_set_license may do: trap, return a non-zero code, or return
\* 0 with a key in the key region. data is the memory it leaves; the host
\* reads the region only right after such a call, so the model keeps no
\* memory between calls.
GuestKeys == {[i \in 1..LICENSE_KEY_LENGTH |-> 160 + i]}
GuestBehaviours ==
    [trap : {TRUE}, ret : {0}, data : {ZeroedMemory}]
        \cup [trap : {FALSE}, ret : {1, -1}, data : {ZeroedMemory}]
        \cup [trap : {FALSE}, ret : {0}, data : {WithKey(k) : k \in GuestKeys}]

\* Where initialize() can fail
InitFailures == {"memory", "instantiate", "exports", "ctors", "context_alloc"}
InitOutcomes == InitFailures \cup {"ok"}

\* ------------------------------------------------------------------- state

VARIABLES
    _sessions,   \* CDM._sessions: session identifier -> Session object
    objs,        \* the Session objects constructed so far, in order
    heap,        \* the list objects: Session object i owns list i, the
                 \* caller's list is list FreshList
    held,        \* the lists the caller holds: what its last call returned,
                 \* when that was get_keys
    issued,      \* the identifiers uuid4 has returned
    nparsed,     \* per Session object: parse_license calls that returned
                 \* normally since the object was made or last cleaned up
    last,        \* the last call: what was called, and how it ended
    cleaned,     \* the Session objects cleanup() has run on
    threads,     \* the callers whose code the model follows line by line
                 \* (main.license_, or threads that share one CDM): where
                 \* each is, and its locals
    probe        \* a helper called on its own: its arguments and its result

vars ==
    <<_sessions, objs, heap, held, issued, nparsed, last, cleaned, threads,
      probe>>

SessionIds == 1..MaxSessions

\* None, where the code holds a handle (store, memory, instance, export table)
NoHandle == 0
\* The list object a get_keys call makes
FreshList == 0

Objects == DOMAIN objs

\* A handle of a new runtime object: one no live object has
NewHandle(used) == CHOOSE n \in 1..(Cardinality(used) + 1) : n \notin used

\* A faulty variant: the module hands every session the same store
create_store_shared == NewHandle({})

\* Module.create_store: a new wasmtime.Store
create_store == NewHandle({objs[o].store : o \in Objects})

\* wasmtime.Memory(store, type): a new, zeroed memory
NewMemory == NewHandle({objs[o].memory : o \in Objects} \ {NoHandle})

\* wasmtime.Instance(store, module, imports): a new instance
NewInstance ==
    NewHandle(({objs[o].instance : o \in Objects}
                  \cup {objs[o].exports : o \in Objects}) \ {NoHandle})

\* A faulty variant: an identifier that is merely not registered now
uuid4_unregistered ==
    {id \in SessionIds \ DOMAIN _sessions :
        \A other \in SessionIds \ DOMAIN _sessions : id <= other}

\* str(uuid.uuid4()): an identifier that was not drawn before. The code only
\* compares identifiers for equality, so which one is drawn does not matter
\* to it: the model draws them in a fixed order.
uuid4 == {id \in SessionIds \ issued : \A other \in SessionIds \ issued : id <= other}

\* The last call: the method, the identifier and the object it was made on,
\* an argument, the exception it raised and the one that wraps, whether the
\* guest's license-setter returned and what, whether the key region was read,
\* and the memory the guest left.
Call(op, sid, obj, arg, exc, cause, returned, ret, key_read, memory) ==
    [op |-> op, sid |-> sid, obj |-> obj, arg |-> arg, exc |-> exc,
     cause |-> cause, returned |-> returned, ret |-> ret,
     key_read |-> key_read, memory |-> memory]

\* A call that does not reach the guest: it returns, or raises exc
Plain(op, sid, obj, arg, exc) ==
    Call(op, sid, obj, arg, exc, exc, FALSE, 0, FALSE, ZeroedMemory)

\* ------------------------------------------------------------------ Session

\* Session.__init__
Session(session_id, store) ==
    [session_id |-> session_id, store |-> store, instance |-> NoHandle,
     memory |-> NoHandle, exports |-> NoHandle, ctx |-> None,
     initialized |-> FALSE]

\* A faulty variant: the `if self._initialized: return` guard is missing
initialize_unguarded(self, out) ==
    LET m == NewMemory
        i == NewInstance
        s1 == [self EXCEPT !.memory = m]
        s2 == [s1 EXCEPT !.instance = i]
        s3 == [s2 EXCEPT !.exports = i]
    IN  CASE out = "memory" -> self
          [] out = "instantiate" -> s1
          [] out = "exports" -> s2
          [] out = "ctors" -> s3
          [] out = "context_alloc" -> s3
          [] OTHER -> [s3 EXCEPT !.ctx = "guest_ctx", !.initialized = TRUE]

\* Session.initialize, ending as `out` says: the fields it has set when it
\* returns or raises. exports holds the instance whose exports are resolved.
initialize(self, out) ==
    IF self.initialized THEN self
    ELSE LET m == NewMemory
             i == NewInstance
             s1 == [self EXCEPT !.memory = m]
             s2 == [s1 EXCEPT !.instance = i]
             s3 == [s2 EXCEPT !.exports = i]
         IN  CASE out = "memory" -> self
               [] out = "instantiate" -> s1
               [] out = "exports" -> s2
               [] out = "ctors" -> s3
               [] out = "context_alloc" -> s3
               [] OTHER -> [s3 EXCEPT !.ctx = "guest_ctx", !.initialized = TRUE]

\* A faulty variant: a failing context allocator goes unnoticed
initialize_raises_quiet(self, out) ==
    ~self.initialized /\ out \notin {"ok", "context_alloc"}

\* Whether that initialize() call raises (MonalisaSessionError)
initialize_raises(self, out) == ~self.initialized /\ out # "ok"

\* A faulty variant: cleanup sets _initialized instead of resetting it
cleanup_sets_initialized(self) ==
    [self EXCEPT !.ctx = None, !.instance = NoHandle, !.memory = NoHandle,
                 !.initialized = TRUE]

\* A faulty variant: _initialized is not reset
cleanup_keeps_initialized(self) ==
    [self EXCEPT !.ctx = None, !.instance = NoHandle, !.memory = NoHandle]

\* Session.cleanup, the fields
cleanup(self) ==
    [self EXCEPT !.ctx = None, !.instance = NoHandle, !.memory = NoHandle,
                 !.initialized = FALSE]

\* A faulty variant: the key list survives cleanup
cleanup_keys_kept(keys) == keys

\* Session.cleanup, the key list: self._keys.clear()
cleanup_keys(keys) == <<>>

\* Session._ccall("monalisa_set_license", int, self._ctx, license_str,
\* len(license_str), "0"): what it raises (None: nothing) and what it returns.
\* The first string argument needs the export table (KeyError when it is
\* empty), then the memory handle (AttributeError when it is None); the guest
\* call refuses a context that is None (TypeError) and may trap.
_ccall(self, g) ==
    IF self.exports = NoHandle THEN [raised |-> "KeyError", ret |-> 0]
    ELSE IF self.memory = NoHandle THEN [raised |-> "AttributeError", ret |-> 0]
    ELSE IF self.ctx = None THEN [raised |-> "TypeError", ret |-> 0]
    ELSE IF g.trap THEN [raised |-> "Trap", ret |-> 0]
    ELSE [raised |-> None, ret |-> g.ret]

\* A faulty variant: the slice starts one byte late
_extract_license_key_late(data, data_len) ==
    IF LICENSE_KEY_OFFSET + LICENSE_KEY_LENGTH > data_len
    THEN [ok |-> FALSE, hex |-> <<>>]
    ELSE [ok |-> TRUE,
          hex |-> Hex([i \in 1..LICENSE_KEY_LENGTH |->
                          data[LICENSE_KEY_OFFSET + i]])]

\* Session._extract_license_key
_extract_license_key(data, data_len) ==
    IF LICENSE_KEY_OFFSET + LICENSE_KEY_LENGTH > data_len
    THEN [ok |-> FALSE, hex |-> <<>>]
    ELSE [ok |-> TRUE,
          hex |-> Hex([i \in 1..LICENSE_KEY_LENGTH |->
                          data[LICENSE_KEY_OFFSET + i - 1]])]

\* A faulty variant: only negative codes count as a refusal
validation_failed_negative(ret) == ret < 0

\* parse_license, line 183: the return code that means the guest refused
validation_failed(ret) == ret # 0

\* A faulty variant: the handler catches MonalisaLicenseError only, and any
\* other exception leaves parse_license as it is
Wrap_own_only(e) == e

\* parse_license, lines 205-206: `except Exception as e` re-raises whatever
\* was raised inside the try block, the code's own MonalisaLicenseError
\* included, as a MonalisaLicenseError
Wrap(e) == "MonalisaLicenseError"

\* License.b64
b64(license_) == license_.data_b64

\* The identity of the Key object a session makes: no other live Key has the
\* session's identifier and this place in its list.
NewKey(self, keys) == <<self.session_id, Len(keys) + 1>>

\* Session.parse_license on a session with key list `keys`: the exception it
\* raises (None: it returns), the cause it wraps, the guest's return value if
\* the guest returned, whether the key region was read, and the key list it
\* leaves.
parse_license(self, keys, license_, g) ==
    LET license_str == b64(license_)
        call == _ccall(self, g)
        x == _extract_license_key(g.data, MemoryBytes)
        text == Lookup(DecodedTable, license_str)
        Fail(cause, returned, key_read) ==
            [exc |-> Wrap(cause), cause |-> cause,
             returned |-> returned, ret |-> call.ret, key_read |-> key_read,
             keys |-> keys]
    IN  IF call.raised # None THEN Fail(call.raised, FALSE, FALSE)
        ELSE IF validation_failed(call.ret)
             THEN Fail("MonalisaLicenseError", TRUE, FALSE)
        ELSE IF ~x.ok THEN Fail("MonalisaLicenseError", TRUE, FALSE)
        ELSE IF ~text.ok THEN Fail("binascii.Error", TRUE, TRUE)
        ELSE [exc |-> None, cause |-> None, returned |-> TRUE,
              ret |-> call.ret,
              key_read |-> TRUE,
              keys |-> Append(keys, Key(NewKey(self, keys),
                                        Lookup(KidTable, license_str),
                                        FromHex(x.hex), "CONTENT"))]

\* A faulty variant: the filter is ignored
get_keys_unfiltered(keys, key_type) == keys

\* Session.get_keys: the elements of the list it returns
get_keys(keys, key_type) ==
    IF key_type # None
    THEN SelectSeq(keys, LAMBDA key : key.type = key_type)
    ELSE keys

\* A faulty variant: without a filter the session's own list is returned
\* (`return self._keys`)
ReturnedList_own(self, key_type) ==
    IF key_type = None THEN self ELSE FreshList

\* Session.get_keys: the list object it returns, in both branches a new one
ReturnedList(self, key_type) == FreshList

\* --------------------------------------------------------------------- CDM

\* CDM._get_session: whether it raises
_get_session_raises(session_id) == session_id \notin DOMAIN _sessions

\* A faulty variant: the lookup's own KeyError escapes
SessionNotFound_KeyError == "KeyError"

\* CDM._get_session, line 102: what it raises
SessionNotFound == "MonalisaSessionError"

\* self._sessions[session_id] = session
Register(session_id, o) ==
    [i \in DOMAIN _sessions \cup {session_id} |->
        IF i = session_id THEN o ELSE _sessions[i]]

\* A faulty variant: the entry stays
Deregister_entry_kept(session_id) == _sessions

\* del self._sessions[session_id]
Deregister(session_id) ==
    [i \in DOMAIN _sessions \ {session_id} |-> _sessions[i]]

\* CDM.get_keys: its key_type parameter defaults to KeyType.CONTENT
CdmKeyType(arg) == IF arg = Omitted THEN "CONTENT" ELSE arg

\* Session.get_keys: its key_type parameter defaults to None
SessionKeyType(arg) == IF arg = Omitted THEN None ELSE arg

TotalKeys ==
    Cardinality({<<o, i>> \in Objects \X (1..MaxKeys) : i <= Len(heap[o])})

\* CDM.__init__: no session, no object, nothing called yet
NewCdm ==
    /\ _sessions = [i \in {} |-> 0]
    /\ objs = <<>>
    /\ heap = (FreshList :> <<>>)
    /\ held = {}
    /\ issued = {}
    /\ nparsed = <<>>
    /\ cleaned = {}
    /\ last = Plain("init", 0, 0, None, None)

Init ==
    /\ NewCdm
    /\ threads = <<>>
    /\ probe = <<>>

\* The caller lets go of the list an earlier get_keys gave it
DropList(h) == [h EXCEPT ![FreshList] = <<>>]

\* A Session object is kept: it joins the objects, with an empty key list
Construct(session) ==
    /\ objs' = Append(objs, session)
    /\ heap' = DropList(heap) @@ ((Len(objs) + 1) :> <<>>)
    /\ nparsed' = Append(nparsed, 0)
    /\ cleaned' = cleaned

\* CDM.open. A session whose initialize() raises is referenced by nothing
\* once open has raised: it does not join the objects.
Open ==
    \E session_id \in uuid4, out \in InitOutcomes :
        LET fresh == Session(session_id, create_store)
            raises == initialize_raises(fresh, out)
        IN  /\ IF raises
               THEN /\ heap' = DropList(heap)
                    /\ UNCHANGED <<objs, nparsed, cleaned, _sessions>>
               ELSE /\ Construct(initialize(fresh, out))
                    /\ _sessions' = Register(session_id, Len(objs) + 1)
            /\ issued' = issued \cup {session_id}
            /\ held' = {}
            /\ last' = Plain("CDM.open", session_id,
                             IF raises THEN NoHandle ELSE Len(objs) + 1, out,
                             IF raises THEN "MonalisaSessionError" ELSE None)

\* The effect of Session.cleanup on object o
Cleanup(o) ==
    /\ objs' = [objs EXCEPT ![o] = cleanup(@)]
    /\ heap' = [DropList(heap) EXCEPT ![o] = cleanup_keys(@)]
    /\ nparsed' = [nparsed EXCEPT ![o] = 0]
    /\ cleaned' = cleaned \cup {o}

\* CDM.close
Close(session_id) ==
    /\ IF session_id \in DOMAIN _sessions
       THEN /\ Cleanup(_sessions[session_id])
            /\ _sessions' = Deregister(session_id)
            /\ last' = Plain("CDM.close", session_id, _sessions[session_id],
                             None, None)
       ELSE /\ heap' = DropList(heap)
            /\ UNCHANGED <<objs, nparsed, cleaned, _sessions>>
            /\ last' = Plain("CDM.close", session_id, NoHandle, None, None)
    /\ held' = {}
    /\ UNCHANGED issued

\* The effect of Session.parse_license on object o, the guest behaving as g
ParseLicense(op, session_id, o, license_, g) ==
    LET r == parse_license(objs[o], heap[o], license_, g) IN
    /\ r.exc = None => TotalKeys < MaxKeys
    /\ heap' = [DropList(heap) EXCEPT ![o] = r.keys]
    /\ nparsed' = [nparsed EXCEPT ![o] = IF r.exc = None THEN @ + 1 ELSE @]
    /\ cleaned' = cleaned
    /\ last' = Call(op, session_id, o, None, r.exc, r.cause, r.returned,
                    r.ret, r.key_read,
                    IF r.returned THEN g.data ELSE ZeroedMemory)
    /\ UNCHANGED objs

\* CDM.parse_license
CdmParseLicense(session_id, x) ==
    /\ IF _get_session_raises(session_id)
       THEN /\ heap' = DropList(heap)
            /\ UNCHANGED <<objs, nparsed, cleaned>>
            /\ last' = Plain("CDM.parse_license", session_id, NoHandle, None,
                             SessionNotFound)
       ELSE \E g \in GuestBehaviours :
                ParseLicense("CDM.parse_license", session_id,
                             _sessions[session_id], LicenseOf(x), g)
    /\ held' = {}
    /\ UNCHANGED <<_sessions, issued>>

\* The effect of Session.get_keys on object o: the caller gets a list
GetKeys(o, key_type) ==
    LET l == ReturnedList(o, key_type) IN
    /\ held' = {l}
    /\ heap' = IF l = FreshList
               THEN [heap EXCEPT ![FreshList] = get_keys(heap[o], key_type)]
               ELSE DropList(heap)

\* CDM.get_keys
CdmGetKeys(session_id, arg) ==
    /\ IF _get_session_raises(session_id)
       THEN /\ heap' = DropList(heap)
            /\ held' = {}
            /\ last' = Plain("CDM.get_keys", session_id, NoHandle, arg,
                             SessionNotFound)
       ELSE /\ GetKeys(_sessions[session_id], CdmKeyType(arg))
            /\ last' = Plain("CDM.get_keys", session_id,
                             _sessions[session_id], arg, None)
    /\ UNCHANGED <<_sessions, objs, issued, nparsed, cleaned>>

\* A Key object the caller made itself
ForeignKey == Key(<<0, 0>>, NilUuid, <<>>, "SIGNING")

\* The caller changes a list it holds: it adds an element, or removes the
\* first one
CallerChangesList ==
    \E l \in held :
        /\ \/ /\ \A i \in 1..Len(heap[l]) : heap[l][i].ref # ForeignKey.ref
              /\ heap' = [heap EXCEPT ![l] = Append(@, ForeignKey)]
           \/ /\ heap[l] # <<>>
              /\ heap' = [heap EXCEPT ![l] = Tail(@)]
        /\ last' = Plain("caller", 0, l, None, None)
        /\ UNCHANGED <<_sessions, objs, held, issued, nparsed, cleaned>>

\* The types the caller gives a key it was handed
CallerTypes == {"CONTENT", "SIGNING"}

\* The caller assigns the type field of a Key object in a list it holds.
\* Every list that holds the object sees the new type.
CallerSetsKeyType ==
    \E l \in held :
        \E i \in 1..Len(heap[l]), t \in CallerTypes :
            /\ heap[l][i].type # t
            /\ heap' = [h \in DOMAIN heap |->
                            [j \in 1..Len(heap[h]) |->
                                IF heap[h][j].ref = heap[l][i].ref
                                THEN [heap[h][j] EXCEPT !.type = t]
                                ELSE heap[h][j]]]
            /\ last' = Plain("caller", 0, l, t, None)
            /\ UNCHANGED <<_sessions, objs, held, issued, nparsed, cleaned>>

\* One caller, one call at a time, and no helper called on its own
Sequential == UNCHANGED <<threads, probe>>

Next ==
    \/ Open /\ Sequential
    \/ \E session_id \in SessionIds : Close(session_id) /\ Sequential
    \/ \E session_id \in SessionIds, x \in LicenseInputs :
           CdmParseLicense(session_id, x) /\ Sequential
    \/ \E session_id \in SessionIds, arg \in KeyTypeArgs :
           CdmGetKeys(session_id, arg) /\ Sequential
    \/ CallerChangesList /\ Sequential

Spec == Init /\ [][Next]_vars

\* ------------------------------------------- Session's methods, called directly

\* SpecSession is the life of one Session object in the hands of a caller
\* that made it itself and calls its methods in any order. The methods touch
\* nothing but their own object.

\* Session(str(uuid.uuid4()), module, module.create_store()), as CDM.open
\* makes it
SessionNew ==
    /\ objs = <<>>
    /\ \E session_id \in uuid4 :
          /\ Construct(Session(session_id, create_store))
          /\ issued' = issued \cup {session_id}
          /\ last' = Plain("Session", session_id, Len(objs) + 1, None, None)
    /\ held' = {}
    /\ UNCHANGED _sessions

\* Session.initialize
SessionInitialize(o) ==
    \E out \in InitOutcomes :
        /\ objs' = [objs EXCEPT ![o] = initialize(@, out)]
        /\ heap' = DropList(heap)
        /\ held' = {}
        /\ last' = Plain("Session.initialize", objs[o].session_id, o, out,
                         IF initialize_raises(objs[o], out)
                         THEN "MonalisaSessionError" ELSE None)
        /\ UNCHANGED <<_sessions, issued, nparsed, cleaned>>

\* Session.parse_license
SessionParseLicense(o, x) ==
    /\ \E g \in GuestBehaviours :
           ParseLicense("Session.parse_license", objs[o].session_id, o,
                        LicenseOf(x), g)
    /\ held' = {}
    /\ UNCHANGED <<_sessions, issued>>

\* Session.get_keys
SessionGetKeys(o, arg) ==
    /\ GetKeys(o, SessionKeyType(arg))
    /\ last' = Plain("Session.get_keys", objs[o].session_id, o, arg, None)
    /\ UNCHANGED <<_sessions, objs, issued, nparsed, cleaned>>

\* Session.cleanup
SessionCleanup(o) ==
    /\ Cleanup(o)
    /\ held' = {}
    /\ last' = Plain("Session.cleanup", objs[o].session_id, o, None, None)
    /\ UNCHANGED <<_sessions, issued>>

NextSession ==
    \/ SessionNew /\ Sequential
    \/ \E o \in Objects : SessionInitialize(o) /\ Sequential
    \/ \E o \in Objects, x \in LicenseInputs :
           SessionParseLicense(o, x) /\ Sequential
    \/ \E o \in Objects, arg \in KeyTypeArgs :
           SessionGetKeys(o, arg) /\ Sequential
    \/ \E o \in Objects : SessionCleanup(o) /\ Sequential
    \/ CallerChangesList /\ Sequential

SpecSession == Init /\ [][NextSession]_vars

\* ------------------------------------------------ keys in the caller's hands

\* SpecKeys is one session of the registry and a caller that reads its keys,
\* through the registry and from the Session object, and assigns the type
\* field of the Key objects it is handed.

\* CDM.open, the first one
OpenOne == objs = <<>> /\ Open

NextKeys ==
    \/ OpenOne /\ Sequential
    \/ \E session_id \in SessionIds, x \in LicenseInputs :
           CdmParseLicense(session_id, x) /\ Sequential
    \/ \E session_id \in SessionIds, arg \in KeyTypeArgs :
           CdmGetKeys(session_id, arg) /\ Sequential
    \/ \E o \in Objects, arg \in KeyTypeArgs :
           SessionGetKeys(o, arg) /\ Sequential
    \/ CallerSetsKeyType /\ Sequential

SpecKeys == Init /\ [][NextKeys]_vars

\* ------------------------------------------------------ key identifiers

\* SpecKid is the registry with two sessions, opened at any time, and
\* licenses parsed from the raw tickets of KidCases.

\* CDM.open, the first and the second one
OpenTwo == Len(objs) <= 1 /\ Open

NextKid ==
    \/ OpenTwo /\ Sequential
    \/ \E session_id \in SessionIds, x \in KidTickets :
           CdmParseLicense(session_id, x) /\ Sequential

SpecKid == Init /\ [][NextKid]_vars

\* ------------------------------------------------------- main.license_

\* SpecFlow follows main.license_, the process-a-license command, line by
\* line: it makes a CDM, opens a session, parses the license, reads the
\* keys and closes the session; any exception ends it in a handler that logs
\* and returns. The command may be run again while uuid4 has identifiers.
\* (main.py imports the class under the name Cdm; cdm.py names it CDM.)

\* The caller's locals: where it is, its session identifier, the Session
\* object its failure is about, and whether it ended in a handler
Caller(pc, sid, obj, failed) ==
    [pc |-> pc, sid |-> sid, obj |-> obj, failed |-> failed]

InitFlow ==
    /\ NewCdm
    /\ threads = <<Caller("returned", 0, NoHandle, FALSE)>>
    /\ probe = <<>>

\* The caller moves on
Goto(pc, sid, obj, failed) ==
    /\ threads' = [threads EXCEPT ![1] = Caller(pc, sid, obj, failed)]
    /\ UNCHANGED probe

\* main.py:122, cdm = Cdm.from_module(module): a CDM with no session
FlowStart ==
    /\ threads[1].pc = "returned"
    /\ uuid4 # {}
    /\ _sessions' = [i \in {} |-> 0]
    /\ heap' = DropList(heap)
    /\ held' = {}
    /\ last' = Plain("CDM", 0, NoHandle, None, None)
    /\ UNCHANGED <<objs, issued, nparsed, cleaned>>
    /\ Goto("open", 0, NoHandle, FALSE)

\* CDM.open, the Session object it made kept in view when initialize()
\* raised: open has no handler, so the object leaves open as initialize()
\* left it, registered nowhere.
OpenObserved ==
    \E session_id \in uuid4, out \in InitOutcomes :
        LET fresh == Session(session_id, create_store)
            raises == initialize_raises(fresh, out)
        IN  /\ Construct(initialize(fresh, out))
            /\ _sessions' = IF raises THEN _sessions
                            ELSE Register(session_id, Len(objs) + 1)
            /\ issued' = issued \cup {session_id}
            /\ held' = {}
            /\ last' = Plain("CDM.open", session_id, Len(objs) + 1, out,
                             IF raises THEN "MonalisaSessionError" ELSE None)

\* main.py:126, session_id = cdm.open()
FlowOpen ==
    /\ threads[1].pc = "open"
    /\ OpenObserved
    /\ IF last'.exc = None
       THEN Goto("parse", last'.sid, last'.obj, FALSE)
       ELSE Goto("handler", 0, last'.obj, TRUE)

\* main.py:130-133, cdm.parse_license(session_id, License(license_data))
FlowParse ==
    /\ threads[1].pc = "parse"
    /\ \E x \in LicenseInputs : CdmParseLicense(threads[1].sid, x)
    /\ IF last'.exc = None
       THEN Goto("get_keys", threads[1].sid, threads[1].obj, FALSE)
       ELSE Goto("handler", threads[1].sid, threads[1].obj, TRUE)

\* main.py:136, keys = cdm.get_keys(session_id, KeyType.CONTENT). With or
\* without keys, the next call is cdm.close(session_id) (lines 140, 151).
FlowGetKeys ==
    /\ threads[1].pc = "get_keys"
    /\ CdmGetKeys(threads[1].sid, "CONTENT")
    /\ Goto("close", threads[1].sid, threads[1].obj, FALSE)

\* main.py:140 and 151, cdm.close(session_id)
FlowClose ==
    /\ threads[1].pc = "close"
    /\ Close(threads[1].sid)
    /\ Goto("done", threads[1].sid, threads[1].obj, FALSE)

\* CDM.__del__: close(session_id) for every registered session
Del ==
    LET mine == {_sessions[id] : id \in DOMAIN _sessions} IN
    /\ objs' = [o \in DOMAIN objs |->
                   IF o \in mine THEN cleanup(objs[o]) ELSE objs[o]]
    /\ heap' = [l \in DOMAIN heap |->
                   IF l \in mine THEN cleanup_keys(heap[l])
                   ELSE IF l = FreshList THEN <<>> ELSE heap[l]]
    /\ nparsed' = [o \in DOMAIN nparsed |->
                      IF o \in mine THEN 0 ELSE nparsed[o]]
    /\ cleaned' = cleaned \cup mine
    /\ _sessions' = [i \in {} |-> 0]

\* license_ returns, from its last line or from a handler (main.py:154-166),
\* and its local cdm goes out of use. When the interpreter finalizes the CDM
\* is its own business: __del__ has run by now, or it has not.
FlowReturn ==
    /\ threads[1].pc \in {"done", "handler"}
    /\ \E finalized \in BOOLEAN :
          IF finalized
          THEN Del
          ELSE /\ heap' = DropList(heap)
               /\ UNCHANGED <<_sessions, objs, nparsed, cleaned>>
    /\ held' = {}
    /\ last' = Plain("license_", threads[1].sid, threads[1].obj, None, None)
    /\ UNCHANGED issued
    /\ Goto("returned", threads[1].sid, threads[1].obj, threads[1].failed)

NextFlow ==
    \/ FlowStart
    \/ FlowOpen
    \/ FlowParse
    \/ FlowGetKeys
    \/ FlowClose
    \/ FlowReturn

SpecFlow == InitFlow /\ [][NextFlow]_vars

\* ----------------------------------------------------------------- License

\* SpecLicense builds License values on their own: one from an input, and
\* one more from the raw bytes of the first.

\* The inputs: texts over A, B, Q, =, line feed and e-acute, byte strings
\* over 0, 65 and 255, of MaxText characters or bytes at most
TextAlphabet == {65, 66, 81, 61, 10, 233}
ByteAlphabet == {0, 65, 255}
SeqsUpTo(S, n) == UNION {[1..k -> S] : k \in 0..n}
LicenseArgs ==
    [kind : {"str"}, val : SeqsUpTo(TextAlphabet, MaxText)]
        \cup [kind : {"bytes"}, val : SeqsUpTo(ByteAlphabet, MaxText)]

NoLicense == [data |-> <<>>, data_b64 |-> <<>>]

InitLicense ==
    /\ NewCdm
    /\ threads = <<>>
    /\ probe \in [at : {"input"}, input : LicenseArgs,
                  license : {NoLicense}, again : {NoLicense}]

\* License(input)
LicenseNew ==
    /\ probe.at = "input"
    /\ probe' = [probe EXCEPT !.at = "License",
                              !.license = License(probe.input)]
    /\ UNCHANGED <<_sessions, objs, heap, held, issued, nparsed, last,
                   cleaned, threads>>

\* The raw property of a License value
raw(license_) == license_.data

\* License(license.raw)
LicenseFromRaw ==
    /\ probe.at = "License"
    /\ probe' = [probe EXCEPT
                    !.at = "License(raw)",
                    !.again = License([kind |-> "bytes",
                                       val |-> raw(probe.license)])]
    /\ UNCHANGED <<_sessions, objs, heap, held, issued, nparsed, last,
                   cleaned, threads>>

NextLicense == LicenseNew \/ LicenseFromRaw

SpecLicense == InitLicense /\ [][NextLicense]_vars

\* ----------------------------------------------------------------- threads

\* SpecThreads is one CDM shared by MaxThreads threads that call open() and
\* close(). CDM holds no lock, so a thread switch can fall between any two
\* lines of open and close; a dict operation is one step. A thread closes
\* identifiers that open has returned to some thread. cleanup() is taken as
\* one step: it only assigns None and clears the list.

Threads == 1..MaxThreads

InitThreads ==
    /\ NewCdm
    /\ threads = [t \in Threads |-> Caller("idle", 0, NoHandle, FALSE)]
    /\ probe = <<>>

\* Thread t moves on; the other threads stay
Switch(t, pc, sid, obj, failed) ==
    /\ threads' = [threads EXCEPT ![t] = Caller(pc, sid, obj, failed)]
    /\ UNCHANGED <<probe, held>>

\* The identifiers that open has returned
Returned ==
    issued \ {threads[t].sid : t \in {u \in Threads : threads[u].pc = "open:51"}}

\* cdm.py:47-50, the new identifier, the store, the Session and its
\* initialize(); when that raises, open raises and the Session is dropped
ThreadOpenSession(t) ==
    /\ threads[t].pc = "idle"
    /\ \E session_id \in uuid4, out \in InitOutcomes :
        LET fresh == Session(session_id, create_store)
            raises == initialize_raises(fresh, out)
        IN  /\ issued' = issued \cup {session_id}
            /\ UNCHANGED _sessions
            /\ IF raises
               THEN /\ heap' = DropList(heap)
                    /\ UNCHANGED <<objs, nparsed, cleaned>>
                    /\ last' = Plain("CDM.open", session_id, NoHandle, out,
                                     "MonalisaSessionError")
                    /\ Switch(t, "idle", 0, NoHandle, threads[t].failed)
               ELSE /\ Construct(initialize(fresh, out))
                    /\ last' = last
                    /\ Switch(t, "open:51", session_id, Len(objs) + 1,
                              threads[t].failed)

\* cdm.py:51-52, self._sessions[session_id] = session, and the return
ThreadOpenRegister(t) ==
    /\ threads[t].pc = "open:51"
    /\ _sessions' = Register(threads[t].sid, threads[t].obj)
    /\ last' = Plain("CDM.open", threads[t].sid, threads[t].obj, "ok", None)
    /\ UNCHANGED <<objs, heap, issued, nparsed, cleaned>>
    /\ Switch(t, "idle", 0, NoHandle, threads[t].failed)

\* cdm.py:61, if session_id in self._sessions; close returns when it is not
ThreadCloseTest(t, session_id) ==
    /\ threads[t].pc = "idle"
    /\ session_id \in Returned
    /\ UNCHANGED <<_sessions, objs, heap, issued, nparsed, cleaned>>
    /\ IF session_id \in DOMAIN _sessions
       THEN /\ last' = last
            /\ Switch(t, "close:62", session_id, NoHandle, threads[t].failed)
       ELSE /\ last' = Plain("CDM.close", session_id, NoHandle, None, None)
            /\ Switch(t, "idle", 0, NoHandle, threads[t].failed)

\* cdm.py:62, self._sessions[session_id]: the subscript raises KeyError when
\* the entry is gone
ThreadCloseLookup(t) ==
    /\ threads[t].pc = "close:62"
    /\ UNCHANGED <<_sessions, objs, heap, issued, nparsed, cleaned>>
    /\ IF threads[t].sid \in DOMAIN _sessions
       THEN /\ last' = last
            /\ Switch(t, "close:62:cleanup", threads[t].sid,
                      _sessions[threads[t].sid], threads[t].failed)
       ELSE /\ last' = Plain("CDM.close", threads[t].sid, NoHandle, None,
                             "KeyError")
            /\ Switch(t, "idle", 0, NoHandle, TRUE)

\* cdm.py:62, .cleanup() on the object found
ThreadCloseCleanup(t) ==
    /\ threads[t].pc = "close:62:cleanup"
    /\ Cleanup(threads[t].obj)
    /\ last' = Plain("Session.cleanup", threads[t].sid, threads[t].obj,
                     None, None)
    /\ UNCHANGED <<_sessions, issued>>
    /\ Switch(t, "close:63", threads[t].sid, threads[t].obj,
              threads[t].failed)

\* cdm.py:63, del self._sessions[session_id]: KeyError when the entry is
\* gone
ThreadCloseDel(t) ==
    /\ threads[t].pc = "close:63"
    /\ UNCHANGED <<objs, heap, issued, nparsed, cleaned>>
    /\ IF threads[t].sid \in DOMAIN _sessions
       THEN /\ _sessions' = Deregister(threads[t].sid)
            /\ last' = Plain("CDM.close", threads[t].sid, threads[t].obj,
                             None, None)
            /\ Switch(t, "idle", 0, NoHandle, threads[t].failed)
       ELSE /\ _sessions' = _sessions
            /\ last' = Plain("CDM.close", threads[t].sid, threads[t].obj,
                             None, "KeyError")
            /\ Switch(t, "idle", 0, NoHandle, TRUE)

NextThreads ==
    \E t \in Threads :
        \/ ThreadOpenSession(t)
        \/ ThreadOpenRegister(t)
        \/ \E session_id \in SessionIds : ThreadCloseTest(t, session_id)
        \/ ThreadCloseLookup(t)
        \/ ThreadCloseCleanup(t)
        \/ ThreadCloseDel(t)

SpecThreads == InitThreads /\ [][NextThreads]_vars

\* ------------------------------------------------------------------ _ccall

\* SpecCcall is the end of Session._ccall, after the guest export has
\* returned: the conversion of the raw result for the caller, and
\* Session._utf8_to_string called on its own. The memory is MaxData bytes.

\* Python values with their class; a type object (int, bool, str) is a
\* value of class type. A string has a text, a list has items.
PyInt(n) == [class |-> "int", val |-> n]
PyBool(b) == [class |-> "bool", val |-> b]
PyStr(text) == [class |-> "str", text |-> text]
PyType(name) == [class |-> "type", val |-> name]

\* isinstance(obj, cls) for the classes int, bool, str and type: bool is a
\* subclass of int
isinstance(obj, cls) ==
    obj.class = cls \/ (cls = "int" /\ obj.class = "bool")

\* bytes.decode("utf-8") on sequences of one and two bytes (the bytes of the
\* model stay below 224): ok is FALSE where it raises UnicodeDecodeError
RECURSIVE Utf8Decode(_)
Utf8Decode(bs) ==
    IF bs = <<>> THEN [ok |-> TRUE, text |-> <<>>]
    ELSE IF bs[1] < 128
    THEN LET rest == Utf8Decode(Tail(bs)) IN
         [ok |-> rest.ok, text |-> <<bs[1]>> \o rest.text]
    ELSE IF bs[1] \in 194..223 /\ Len(bs) >= 2 /\ bs[2] \in 128..191
    THEN LET rest == Utf8Decode(SubSeq(bs, 3, Len(bs))) IN
         [ok |-> rest.ok,
          text |-> <<(bs[1] - 192) * 64 + (bs[2] - 128)>> \o rest.text]
    ELSE [ok |-> FALSE, text |-> <<>>]

\* What a call gives: the exception it raises (None: nothing), or a value
Returns(value) == [raised |-> None, value |-> value]
Raises(exc) == [raised |-> exc, value |-> PyInt(0)]

\* Session._utf8_to_string(ptr): memory[a + 1] is the byte at address a
_utf8_to_string(memory, ptr) ==
    LET data_len == Len(memory) IN
    IF ptr = 0 THEN Returns(PyStr(<<>>))
    ELSE IF ptr >= data_len THEN Returns(PyStr(<<>>))
    ELSE LET length == CHOOSE n \in 0..(data_len - ptr) :
                          /\ \A k \in 0..(n - 1) : memory[ptr + k + 1] # 0
                          /\ (ptr + n = data_len \/ memory[ptr + n + 1] = 0)
             data == Utf8Decode(SubSeq(memory, ptr + 1, ptr + length))
         IN  IF data.ok THEN Returns(PyStr(data.text))
             ELSE Raises("UnicodeDecodeError")

\* cdm.py:269-273, the end of _ccall: return_type is the type object the
\* caller passed, result the integer the export returned
_ccall_return(memory, return_type, result) ==
    IF isinstance(return_type, "str") THEN _utf8_to_string(memory, result)
    ELSE IF isinstance(return_type, "bool") THEN Returns(PyBool(result # 0))
    ELSE Returns(PyInt(result))

ReturnTypes == {PyType("int"), PyType("bool"), PyType("str")}
GuestBytes == {0, 65, 195, 169}

InitCcall ==
    /\ NewCdm
    /\ threads = <<>>
    /\ probe \in [at : {"export returned"}, return_type : ReturnTypes,
                  result : 0..(MaxData + 1),
                  memory : [1..MaxData -> GuestBytes],
                  out : {Returns(PyInt(0))}]

\* _ccall returns to its caller
CcallReturn ==
    /\ probe.at = "export returned"
    /\ probe' = [probe EXCEPT
                    !.at = "_ccall",
                    !.out = _ccall_return(probe.memory, probe.return_type,
                                          probe.result)]
    /\ UNCHANGED <<_sessions, objs, heap, held, issued, nparsed, last,
                   cleaned, threads>>

\* _utf8_to_string called with the result as the address
Utf8ToString ==
    /\ probe.at = "export returned"
    /\ probe' = [probe EXCEPT
                    !.at = "_utf8_to_string",
                    !.out = _utf8_to_string(probe.memory, probe.result)]
    /\ UNCHANGED <<_sessions, objs, heap, held, issued, nparsed, last,
                   cleaned, threads>>

NextCcall == CcallReturn \/ Utf8ToString

SpecCcall == InitCcall /\ [][NextCcall]_vars

\* -------------------------------------------------------- _ccall arguments

\* SpecArgs follows Session._ccall from its first line to its return: the
\* conversion of the arguments one by one, the guest call and the restore of
\* the guest stack. The exports stackSave, stackAlloc and stackRestore are
\* Emscripten's: they read, lower (to a multiple of 16) and set the guest's
\* stack pointer. The guest export that is called may return or trap; when
\* it returns it has left the stack pointer as it found it.

PyList(items) == [class |-> "list", items |-> items]

\* The arguments of the calls: integers, lists of bytes, and strings of
\* characters that take one, two, three and four bytes in UTF-8
ArgValues ==
    {PyInt(7), PyList(<<1, 2, 3>>), PyStr(<<>>), PyStr(<<65>>),
     PyStr(<<233, 8364>>), PyStr(<<128512>>)}

\* cdm.py:179-181, the arguments parse_license passes: the context, the
\* license text, its length and "0"
SetLicenseArgs == <<PyInt(1), PyStr(<<81, 81, 61, 61>>), PyInt(4), PyStr(<<48>>)>>

ArgLists == SeqsUpTo(ArgValues, MaxArgs) \cup {SetLicenseArgs}

\* The guest's stack pointer when the first call is made
StackTops == {0, 64, 5242880}

\* The export stackAlloc(size): the new stack pointer, (sp - size) & -16.
\* wasmtime hands i32 values over as signed integers; the sizes of the model
\* are far from wrapping one.
stackAlloc(sp, size) == (sp - size) - ((sp - size) % 16)

\* An export called by the host: which, with what, and what it returned
Invoked(export, arg, ret) == [export |-> export, arg |-> arg, ret |-> ret]

\* A faulty variant: one byte per character and the NUL
max_length_per_char(arg) == Len(arg) + 1

\* cdm.py:251, max_length = (len(arg) << 2) + 1
max_length(arg) == Len(arg) * 4 + 1

\* Session._string_to_utf8(data, ptr, max_length): the bytes it stores, in
\* order, each with its address
_string_to_utf8(data, ptr, max_len) ==
    LET encoded == Utf8Encode(data)
        write_length == IF Len(encoded) < max_len - 1
                        THEN Len(encoded) ELSE max_len - 1
    IN  [i \in 1..(write_length + 1) |->
            IF i <= write_length THEN <<ptr + i - 1, encoded[i]>>
            ELSE <<ptr + write_length, 0>>]

\* Session._write_array_to_memory(array, ptr)
_write_array_to_memory(array, ptr) ==
    [i \in 1..Len(array) |-> <<ptr + i - 1, array[i]>>]

\* No string converted yet
NoWrite ==
    [kind |-> "none", arg |-> <<>>, ptr |-> 0, size |-> 0, stores |-> <<>>]

\* _ccall is entered with the guest's stack pointer at sp
Entered(args, sp, ncalls) ==
    [at |-> "arguments", args |-> args, next |-> 1, stack |-> 0, sp |-> sp,
     entry_sp |-> sp, log |-> <<>>, write |-> NoWrite, ncalls |-> ncalls]

InitArgs ==
    /\ NewCdm
    /\ threads = <<>>
    /\ probe \in {Entered(args, sp, 1) : args \in ArgLists, sp \in StackTops}

Registry == <<_sessions, objs, heap, held, issued, nparsed, last, cleaned, threads>>

\* cdm.py:247-262, one turn of the loop over the arguments
CcallConvert ==
    /\ probe.at = "arguments"
    /\ probe.next <= Len(probe.args)
    /\ LET arg == probe.args[probe.next]
           saves == isinstance(arg, "str") \/ isinstance(arg, "list")
           save == IF saves /\ probe.stack = 0
                   THEN <<Invoked("stackSave", 0, probe.sp)>> ELSE <<>>
           stack == IF saves /\ probe.stack = 0 THEN probe.sp ELSE probe.stack
           size == IF isinstance(arg, "str") THEN max_length(arg.text)
                   ELSE Len(arg.items)
           ptr == stackAlloc(probe.sp, size)
       IN  IF saves
           THEN probe' = [probe EXCEPT
                    !.next = @ + 1,
                    !.stack = stack,
                    !.sp = ptr,
                    !.log = @ \o save \o <<Invoked("stackAlloc", size, ptr)>>,
                    !.write =
                        IF isinstance(arg, "str")
                        THEN [kind |-> "str", arg |-> arg.text, ptr |-> ptr,
                              size |-> size,
                              stores |-> _string_to_utf8(arg.text, ptr, size)]
                        ELSE [kind |-> "list", arg |-> <<>>, ptr |-> ptr,
                              size |-> size,
                              stores |-> _write_array_to_memory(arg.items, ptr)]]
           ELSE probe' = [probe EXCEPT !.next = @ + 1]
    /\ UNCHANGED Registry

\* cdm.py:264, result = self.exports[func_name](self.store, *converted_args)
CcallInvoke ==
    /\ probe.at = "arguments"
    /\ probe.next > Len(probe.args)
    /\ \E trap \in BOOLEAN :
        probe' = [probe EXCEPT
                     !.at = IF trap THEN "raised" ELSE "restore",
                     !.log = Append(@, Invoked("guest", 0, 0))]
    /\ UNCHANGED Registry

\* cdm.py:266-273, the restore and the return
CcallRestore ==
    /\ probe.at = "restore"
    /\ probe' = IF probe.stack # 0
                THEN [probe EXCEPT
                         !.at = "returned",
                         !.sp = probe.stack,
                         !.log = Append(@, Invoked("stackRestore",
                                                   probe.stack, 0))]
                ELSE [probe EXCEPT !.at = "returned"]
    /\ UNCHANGED Registry

\* parse_license is called again on the session
CcallAgain ==
    /\ probe.at \in {"returned", "raised"}
    /\ probe.ncalls < MaxCalls
    /\ probe' = Entered(SetLicenseArgs, probe.sp, probe.ncalls + 1)
    /\ UNCHANGED Registry

NextArgs == CcallConvert \/ CcallInvoke \/ CcallRestore \/ CcallAgain

SpecArgs == InitArgs /\ [][NextArgs]_vars

\* ------------------------------------------------------ initialize, by line

\* SpecInit follows Session.initialize line by line on one Session object:
\* every line that can raise may do so, and the except clause turns that
\* into MonalisaSessionError. After the call the object is cleaned up or
\* left as it is, and initialize() is called again. The memory is kept as
\* the 32-bit words that were written; a word never written is 0.

NoWords == [w \in {} |-> 0]

\* A faulty variant: the address is taken for the word index
_write_i32_unshifted(words, addr, value) ==
    [w \in DOMAIN words \cup {addr} |-> IF w = addr THEN value ELSE words[w]]

\* Session._write_i32(addr, value): mem_ptr[addr >> 2] = value
_write_i32(words, addr, value) ==
    [w \in DOMAIN words \cup {Shr(addr, 2)} |->
        IF w = Shr(addr, 2) THEN value ELSE words[w]]

\* The 32-bit word at a byte address that is a multiple of 4
WordAt(words, addr) ==
    IF Shr(addr, 2) \in DOMAIN words THEN words[Shr(addr, 2)] ELSE 0

\* What _monalisa_context_alloc may return: the guest's business
CtxValues == {"guest_ctx", "guest_ctx_2"}

\* initialize() is entered on the object
InitEntered(self, ncalls) ==
    [at |-> "134", self |-> self, words |-> NoWords, log |-> <<>>,
     ncalls |-> ncalls]

InitInit ==
    /\ NewCdm
    /\ threads = <<>>
    /\ probe \in {InitEntered(Session(session_id, create_store), 1) :
                     session_id \in SessionIds}

\* The line is done: what it leaves, what it adds to the log, where it goes
InitLine(self, words, step, ret, at) ==
    /\ probe' = [probe EXCEPT !.at = at, !.self = self, !.words = words,
                              !.log = Append(@, Invoked(step, 0, ret))]
    /\ UNCHANGED Registry

\* The line raises: cdm.py:169-170 raise MonalisaSessionError
InitRaise ==
    /\ probe' = [probe EXCEPT !.at = "raised"]
    /\ UNCHANGED Registry

\* cdm.py:134-135, if self._initialized: return
InitGuard ==
    /\ probe.at = "134"
    /\ probe' = [probe EXCEPT
                    !.at = IF probe.self.initialized THEN "returned" ELSE "139"]
    /\ UNCHANGED Registry

\* cdm.py:139-140, a new memory, all zero
InitMemory ==
    /\ probe.at = "139"
    /\ \/ InitRaise
       \/ InitLine([probe.self EXCEPT !.memory = NewMemory], NoWords,
                   "Memory", 0, "143")

\* cdm.py:143, self._write_i32(self.DYNAMICTOP_PTR, self.DYNAMIC_BASE)
InitDynamicTop ==
    /\ probe.at = "143"
    /\ InitLine(probe.self,
                _write_i32(probe.words, DYNAMICTOP_PTR, DYNAMIC_BASE),
                "_write_i32", 0, "146")

\* cdm.py:146, imports = self._build_imports()
InitImports ==
    /\ probe.at = "146"
    /\ InitLine(probe.self, probe.words, "_build_imports", 0, "149")

\* cdm.py:149, the instance
InitInstance ==
    /\ probe.at = "149"
    /\ \/ InitRaise
       \/ InitLine([probe.self EXCEPT !.instance = NewInstance], probe.words,
                   "Instance", 0, "152")

\* cdm.py:152-162, the table of exports
InitExports ==
    /\ probe.at = "152"
    /\ \/ InitRaise
       \/ InitLine([probe.self EXCEPT !.exports = probe.self.instance],
                   probe.words, "exports", 0, "165")

\* cdm.py:165, self.exports["___wasm_call_ctors"](self.store)
InitCtors ==
    /\ probe.at = "165"
    /\ \/ InitRaise
       \/ InitLine(probe.self, probe.words, "___wasm_call_ctors", 0, "166")

\* cdm.py:166, self._ctx = self.exports["_monalisa_context_alloc"](self.store)
InitContextAlloc ==
    /\ probe.at = "166"
    /\ \/ InitRaise
       \/ \E value \in CtxValues :
              InitLine([probe.self EXCEPT !.ctx = value], probe.words,
                       "_monalisa_context_alloc", value, "167")

\* cdm.py:167, self._initialized = True, and the return
InitMark ==
    /\ probe.at = "167"
    /\ InitLine([probe.self EXCEPT !.initialized = TRUE], probe.words,
                "_initialized", 0, "returned")

\* initialize() is called again, after cleanup() or on the object as it is
InitAgain ==
    /\ probe.at \in {"returned", "raised"}
    /\ probe.ncalls < MaxCalls
    /\ \E self \in {probe.self, cleanup(probe.self)} :
           probe' = [InitEntered(self, probe.ncalls + 1)
                        EXCEPT !.words = IF self.memory = NoHandle
                                         THEN NoWords ELSE probe.words]
    /\ UNCHANGED Registry

NextInit ==
    \/ InitGuard
    \/ InitMemory
    \/ InitDynamicTop
    \/ InitImports
    \/ InitInstance
    \/ InitExports
    \/ InitCtors
    \/ InitContextAlloc
    \/ InitMark
    \/ InitAgain

SpecInit == InitInit /\ [][NextInit]_vars

\* ------------------------------------------------- emscripten_memcpy_big

\* SpecMemcpy calls the import emscripten_memcpy_big once on a memory of
\* MaxData bytes. Its arguments are wasm i32 values, which wasmtime hands
\* to the host function as signed integers: an address from 2^31 on arrives
\* negative. Indexing the ctypes pointer outside the memory is undefined:
\* the process may stop, or the access hits the host's bytes next to the
\* memory, which hold anything.

CopyBytes == {1, 2}
Addresses == 0..(MaxData - 1)

\* mem_ptr[a], where junk is what lies outside the memory
ReadByte(memory, a, junk) == IF a \in Addresses THEN memory[a] ELSE junk

\* cdm.py:417-419, the loop from i on: the memory it leaves
RECURSIVE CopyLoop(_, _, _, _, _, _)
CopyLoop(memory, dest, src, i, num, junk) ==
    IF i >= num THEN memory
    ELSE IF dest + i < MaxData /\ src + i < MaxData /\ dest + i \in Addresses
    THEN CopyLoop([memory EXCEPT ![dest + i] = ReadByte(memory, src + i, junk)],
                  dest, src, i + 1, num, junk)
    ELSE CopyLoop(memory, dest, src, i + 1, num, junk)

\* The addresses outside the memory that the loop reads or writes
OutsideTouched(dest, src, num) ==
    {a \in {dest + i : i \in 0..(num - 1)} \cup {src + i : i \in 0..(num - 1)} :
        /\ a \notin Addresses
        /\ \E i \in 0..(num - 1) :
              /\ a \in {dest + i, src + i}
              /\ dest + i < MaxData /\ src + i < MaxData}

\* emscripten_memcpy_big(dest, src, num)
emscripten_memcpy_big(memory, dest, src, num, junk) ==
    [ret |-> dest, memory |-> CopyLoop(memory, dest, src, 0, num, junk),
     outside |-> OutsideTouched(dest, src, num)]

InitMemcpy ==
    /\ NewCdm
    /\ threads = <<>>
    /\ probe \in [at : {"called"}, memory : [Addresses -> CopyBytes],
                  dest : -1..MaxData, src : -1..MaxData,
                  num : -1..(MaxData + 1),
                  out : {[ret |-> 0, memory |-> <<>>, outside |-> {}]}]

\* The import returns
MemcpyReturn ==
    /\ probe.at = "called"
    /\ \E junk \in CopyBytes :
          probe' = [probe EXCEPT
                       !.at = "returned",
                       !.out = emscripten_memcpy_big(probe.memory, probe.dest,
                                                     probe.src, probe.num, junk)]
    /\ UNCHANGED Registry

\* The process stops on an access outside the memory
MemcpyFault ==
    /\ probe.at = "called"
    /\ OutsideTouched(probe.dest, probe.src, probe.num) # {}
    /\ probe' = [probe EXCEPT !.at = "fault"]
    /\ UNCHANGED Registry

NextMemcpy == MemcpyReturn \/ MemcpyFault

SpecMemcpy == InitMemcpy /\ [][NextMemcpy]_vars

\* ------------------------------------------------ environ_sizes_get, environ_get

\* SpecEnviron is the guest asking for its environment: it calls the import
\* environ_sizes_get and then environ_get, whose loop is followed string by
\* string. The guest passes addresses inside its memory, those of 32-bit
\* cells multiples of 4, and a buffer apart from the cells. The memory is
\* kept as the words and the bytes that were written.

\* utils.get_env_strings
get_env_strings ==
    << <<85, 83, 69, 82, 61, 119, 101, 98, 95, 117, 115, 101, 114>>,
       <<76, 79, 71, 78, 65, 77, 69, 61, 119, 101, 98, 95, 117, 115, 101, 114>>,
       <<80, 65, 84, 72, 61, 47>>,
       <<80, 87, 68, 61, 47>>,
       <<72, 79, 77, 69, 61, 47, 104, 111, 109, 101, 47, 119, 101, 98, 95, 117,
         115, 101, 114>>,
       <<76, 65, 78, 71, 61, 122, 104, 95, 67, 78, 46, 85, 84, 70, 45, 56>>,
       <<95, 61, 46, 47, 116, 104, 105, 115, 46, 112, 114, 111, 103, 114, 97,
         109>> >>

NoBytes == [a \in {} |-> 0]

\* A faulty variant: the terminator is left out unless asked for
_write_ascii_to_memory_no_null(bytes, string, buffer, dont_add_null) ==
    LET encoded == Utf8Encode(string)
        stored == IF dont_add_null = 0 THEN encoded ELSE encoded \o <<0>>
    IN  [a \in DOMAIN bytes \cup (buffer..(buffer + Len(stored) - 1)) |->
            IF a \in buffer..(buffer + Len(stored) - 1)
            THEN stored[a - buffer + 1] ELSE bytes[a]]

\* Session._write_ascii_to_memory(string, buffer, dont_add_null)
_write_ascii_to_memory(bytes, string, buffer, dont_add_null) ==
    LET encoded == Utf8Encode(string)
        stored == IF dont_add_null = 0 THEN encoded \o <<0>> ELSE encoded
    IN  [a \in DOMAIN bytes \cup (buffer..(buffer + Len(stored) - 1)) |->
            IF a \in buffer..(buffer + Len(stored) - 1)
            THEN stored[a - buffer + 1] ELSE bytes[a]]

\* sum(len(string) + 1 for string in strings), over the first n strings
RECURSIVE SizeOf(_, _)
SizeOf(strings, n) ==
    IF n = 0 THEN 0 ELSE SizeOf(strings, n - 1) + Len(strings[n]) + 1

\* The addresses the guest passes
CountCells == {16, 24}
SizeCells == {20, 28}
PointerArrays == {32, 64}
Buffers == {128, 129, 131}

InitEnviron ==
    /\ NewCdm
    /\ threads = <<>>
    /\ probe \in [at : {"start"}, penviron_count : CountCells,
                  penviron_buf_size : SizeCells, environ_ptr : PointerArrays,
                  environ_buf : Buffers, words : {NoWords}, bytes : {NoBytes},
                  index : {0}, buf_size : {0}]

\* environ_sizes_get(penviron_count, penviron_buf_size)
EnvironSizesGet ==
    /\ probe.at = "start"
    /\ LET strings == get_env_strings
           counted == _write_i32(probe.words, probe.penviron_count, Len(strings))
           buf_size == SizeOf(strings, Len(strings))
       IN  probe' = [probe EXCEPT
                        !.at = "environ_get",
                        !.words = _write_i32(counted, probe.penviron_buf_size,
                                             buf_size)]
    /\ UNCHANGED Registry

\* cdm.py:427-431, one turn of the loop of environ_get
EnvironGetTurn ==
    /\ probe.at = "environ_get"
    /\ probe.index < Len(get_env_strings)
    /\ LET string == get_env_strings[probe.index + 1]
           ptr == probe.environ_buf + probe.buf_size
       IN  probe' = [probe EXCEPT
                        !.words = _write_i32(@, probe.environ_ptr + probe.index * 4,
                                             ptr),
                        !.bytes = _write_ascii_to_memory(@, string, ptr, 0),
                        !.buf_size = @ + Len(string) + 1,
                        !.index = @ + 1]
    /\ UNCHANGED Registry

\* cdm.py:432, return 0
EnvironGetReturn ==
    /\ probe.at = "environ_get"
    /\ probe.index >= Len(get_env_strings)
    /\ probe' = [probe EXCEPT !.at = "returned"]
    /\ UNCHANGED Registry

NextEnviron == EnvironSizesGet \/ EnvironGetTurn \/ EnvironGetReturn

SpecEnviron == InitEnviron /\ [][NextEnviron]_vars

\* ------------------------------------------------------------------ claims

\* The step that was just taken is a parse_license call
ParseStep == last'.op \in {"CDM.parse_license", "Session.parse_license"}

\* The key lists of the Session objects are what they were
SessionListsKept == \A o \in Objects : heap'[o] = heap[o]

\* The bytes of the key region of a memory
KeyRegion(memory) ==
    [i \in 1..LICENSE_KEY_LENGTH |-> memory[LICENSE_KEY_OFFSET + i - 1]]

\* C1: whenever the guest's license-setter returns a non-zero code,
\* parse_license raises a MonalisaLicenseError, the key region is not read,
\* and the session's key list is exactly what it was before the call.
C1_NonZeroReturn ==
    [][(ParseStep /\ last'.returned /\ last'.ret # 0)
          => /\ last'.exc = "MonalisaLicenseError"
             /\ ~last'.key_read
             /\ heap'[last'.obj] = heap[last'.obj]]_vars

\* A session that holds a key is refused a second license with a non-zero
\* code, and still holds that key.
C1_Witness ==
    /\ last.op = "CDM.parse_license"
    /\ last.returned /\ last.ret # 0
    /\ last.exc = "MonalisaLicenseError"
    /\ Len(heap[last.obj]) = 1

\* C2: every failure inside Session.parse_license other than a non-zero
\* return code (a guest trap, a call on a session that was never initialized,
\* only partly initialized or already cleaned up, a key region beyond the
\* memory, a decode failure) surfaces as a MonalisaLicenseError and as no
\* other kind, and leaves the session's key list unchanged.
C2_OtherFailures ==
    [][(/\ last'.op = "Session.parse_license"
        /\ last'.exc # None
        /\ ~(last'.returned /\ last'.ret # 0))
          => /\ last'.exc = "MonalisaLicenseError"
             /\ heap'[last'.obj] = heap[last'.obj]]_vars

\* The guest traps on a session that holds a key; the key stays.
C2_Witness ==
    /\ last.op = "Session.parse_license"
    /\ last.exc = "MonalisaLicenseError"
    /\ last.cause = "Trap"
    /\ Len(heap[last.obj]) = 1

\* C3: every successful parse_license call appends exactly one Key to the end
\* of the session's key list, of type CONTENT, with a 16-byte identifier and
\* the 16 bytes the guest left in the key region, and leaves the keys that
\* were there unchanged and in the same order.
C3_AppendsOneKey ==
    [][(ParseStep /\ last'.exc = None)
          => LET old == heap[last'.obj]
                 new == heap'[last'.obj]
                 key == new[Len(new)]
             IN  /\ Len(new) = Len(old) + 1
                 /\ SubSeq(new, 1, Len(old)) = old
                 /\ key.type = "CONTENT"
                 /\ Len(key.kid) = 16
                 /\ Len(key.key) = LICENSE_KEY_LENGTH
                 /\ key.key = KeyRegion(last'.memory)]_vars

\* A second successful call: the session holds two keys, the new one with the
\* guest's bytes.
C3_Witness ==
    /\ last.op = "CDM.parse_license"
    /\ last.exc = None
    /\ Len(heap[last.obj]) = 2
    /\ heap[last.obj][2].key \in GuestKeys

\* C4, as amended: every session's key list holds one key for each
\* parse_license call that succeeded on the session since it was opened, so
\* it may hold more than one; a closed session holds none.
C4_OneKeyPerSuccessfulCall ==
    \A o \in Objects : Len(heap[o]) = nparsed[o]

\* Two successful parse_license calls on one open session
C4_Witness ==
    \E session_id \in DOMAIN _sessions :
        /\ nparsed[_sessions[session_id]] = 2
        /\ Len(heap[_sessions[session_id]]) = 2

\* C4, as the claim states it: every session's key list holds at most one key
C4_AtMostOneKey ==
    \A o \in Objects : Len(heap[o]) <= 1

\* The keys of a list that have type T, in the list's order
RECURSIVE OfType(_, _)
OfType(keys, T) ==
    IF keys = <<>> THEN <<>>
    ELSE IF Head(keys).type = T
         THEN <<Head(keys)>> \o OfType(Tail(keys), T)
         ELSE OfType(Tail(keys), T)

\* The last call was a get_keys call that returned
GotKeys == last.op \in {"CDM.get_keys", "Session.get_keys"} /\ last.exc = None

\* C5, as amended: get_keys called with a type filter T returns exactly the
\* session's keys of type T in insertion order, for CDM.get_keys as for
\* Session.get_keys; Session.get_keys() with the filter omitted returns every
\* key of the session, and so does either call when None is passed; the
\* registry call CDM.get_keys(session_id) with the filter omitted returns
\* exactly the session's CONTENT keys.
C5_Filter ==
    GotKeys =>
        LET keys == heap[last.obj]
            returned == heap[FreshList]
        IN  /\ last.arg \in KeyType => returned = OfType(keys, last.arg)
            /\ last.arg = None => returned = keys
            /\ (last.arg = Omitted /\ last.op = "Session.get_keys")
                  => returned = keys
            /\ (last.arg = Omitted /\ last.op = "CDM.get_keys")
                  => returned = OfType(keys, "CONTENT")

\* get_keys(CONTENT) on a session that holds a SIGNING key and then a CONTENT
\* key returns the second one alone
C5_Witness ==
    /\ last.op = "CDM.get_keys" /\ last.exc = None
    /\ last.arg = "CONTENT"
    /\ Len(heap[last.obj]) = 2
    /\ heap[last.obj][1].type = "SIGNING"
    /\ heap[FreshList] = <<heap[last.obj][2]>>

\* C5, as the claim states it: with a filter T get_keys returns the keys of
\* type T in order, and with the filter omitted it returns every key, from
\* CDM.get_keys as from Session.get_keys
C5_OmittedReturnsAll ==
    GotKeys =>
        /\ last.arg \in KeyType => heap[FreshList] = OfType(heap[last.obj], last.arg)
        /\ last.arg = Omitted => heap[FreshList] = heap[last.obj]

\* C6: get_keys is pure. The call reaches no guest and changes neither the
\* registry nor any field or key list of a session, and the list it returns
\* is a new one: when the caller adds to it or removes from it, the key lists
\* of the sessions, which decide what a later get_keys returns, stay as they
\* are.
C6_GetKeysPure ==
    [][/\ last'.op \in {"CDM.get_keys", "Session.get_keys"}
          => /\ ~last'.returned
             /\ _sessions' = _sessions
             /\ objs' = objs
             /\ SessionListsKept
       /\ last'.op = "caller" => SessionListsKept]_vars

\* The caller has added a key of its own to the list get_keys returned for a
\* session that holds a key
C6_Witness ==
    /\ last.op = "caller"
    /\ \E o \in Objects :
          /\ heap[o] # <<>>
          /\ heap[FreshList] = Append(heap[o], ForeignKey)

OtherEntriesKept(sid) ==
    \A id \in SessionIds \ {sid} :
        /\ id \in DOMAIN _sessions <=> id \in DOMAIN _sessions'
        /\ id \in DOMAIN _sessions => _sessions'[id] = _sessions[id]

\* C8: sessions are isolated. A parse_license call, successful or failed, or
\* a close on session A leaves the key list, guest context, memory handle,
\* store and registration of every other session B unchanged, and no two
\* sessions ever hold the same store or the same memory.
C8_Isolation ==
    [][/\ (last'.op \in {"CDM.parse_license", "CDM.close"}
              /\ last'.obj # NoHandle)
          => /\ \A b \in Objects \ {last'.obj} :
                    heap'[b] = heap[b] /\ objs'[b] = objs[b]
             /\ OtherEntriesKept(last'.sid)
       /\ \A a, b \in DOMAIN objs' :
             a # b => /\ objs'[a].store # objs'[b].store
                      /\ objs'[a].memory # NoHandle
                            => objs'[a].memory # objs'[b].memory]_vars

\* A session is closed while another open session holds a key
C8_Witness ==
    /\ last.op = "CDM.close" /\ last.obj # NoHandle
    /\ \E id \in DOMAIN _sessions :
          /\ _sessions[id] # last.obj
          /\ Len(heap[_sessions[id]]) = 1
          /\ objs[_sessions[id]].memory # NoHandle

\* C9: close(id) on a registered id removes id from the registry and leaves
\* that session with an empty key list, no guest context, no instance, no
\* memory handle and not initialized; close(id) on an id that is not
\* registered returns normally and changes nothing.
C9_Close ==
    [][last'.op = "CDM.close"
          => /\ last'.exc = None
             /\ IF last'.sid \in DOMAIN _sessions
                THEN LET o == _sessions[last'.sid] IN
                     /\ last'.sid \notin DOMAIN _sessions'
                     /\ heap'[o] = <<>>
                     /\ objs'[o].ctx = None
                     /\ objs'[o].instance = NoHandle
                     /\ objs'[o].memory = NoHandle
                     /\ ~objs'[o].initialized
                ELSE /\ _sessions' = _sessions
                     /\ objs' = objs
                     /\ SessionListsKept]_vars

\* A session was opened and closed: it is out of the registry, with nothing
\* left of its guest
C9_Witness ==
    /\ last.op = "CDM.close" /\ last.obj # NoHandle
    /\ last.sid \notin DOMAIN _sessions
    /\ objs[last.obj].session_id = last.sid
    /\ objs[last.obj].memory = NoHandle
    /\ heap[last.obj] = <<>>

\* C10: for every identifier that is not registered, never returned by open
\* or already closed, CDM.parse_license and CDM.get_keys raise a
\* MonalisaSessionError and leave the registry and every session unchanged.
C10_UnknownSession ==
    [][(/\ last'.op \in {"CDM.parse_license", "CDM.get_keys"}
        /\ last'.sid \notin DOMAIN _sessions)
          => /\ last'.exc = "MonalisaSessionError"
             /\ _sessions' = _sessions
             /\ objs' = objs
             /\ SessionListsKept]_vars

\* parse_license on the identifier of a closed session, while another session
\* is open
C10_Witness ==
    /\ last.op = "CDM.parse_license"
    /\ last.exc = "MonalisaSessionError"
    /\ last.sid \notin DOMAIN _sessions
    /\ \E o \in Objects : objs[o].session_id = last.sid
    /\ DOMAIN _sessions # {}

\* C11: initialize() on a session that is already Initialized is a no-op: it
\* returns without reaching the guest or making a memory, and the memory
\* handle, instance, export table, guest context and key list of the session
\* are what they were.
C11_InitializeIdempotent ==
    [][(last'.op = "Session.initialize" /\ objs[last'.obj].initialized)
          => /\ last'.exc = None
             /\ ~last'.returned
             /\ objs'[last'.obj] = objs[last'.obj]
             /\ heap'[last'.obj] = heap[last'.obj]]_vars

\* initialize() was called again on an Initialized session that holds a key,
\* at a time when the guest's instantiation would have failed
C11_Witness ==
    /\ last.op = "Session.initialize"
    /\ last.arg = "instantiate"
    /\ last.exc = None
    /\ objs[last.obj].initialized
    /\ Len(heap[last.obj]) = 1

\* A call of initialize() on o that returned normally
InitializedBy(o) ==
    last'.op = "Session.initialize" /\ last'.obj = o /\ last'.exc = None

\* C12, as amended: cleanup() leaves a session not Initialized, and once
\* cleanup() has run on a session no later parse_license(), get_keys() or
\* cleanup() call puts it back in the Initialized state; a later initialize()
\* that succeeds does, so the life cycle is Uninitialized -> Initialized ->
\* (cleanup) -> Uninitialized again.
C12_OnlyInitializeRevives ==
    [][\A o \in cleaned' :
          /\ (last'.op = "Session.cleanup" /\ last'.obj = o)
                => ~objs'[o].initialized
          /\ (o \in cleaned /\ ~objs[o].initialized /\ objs'[o].initialized)
                => InitializedBy(o)]_vars

\* A session that was cleaned up is Initialized again, and has parsed a
\* license since
C12_Witness ==
    \E o \in cleaned :
        /\ objs[o].initialized
        /\ Len(heap[o]) = 1
        /\ last.op = "Session.parse_license"

\* C12, as the claim states it: once cleanup() has run on a session, the
\* session is never in the Initialized state again
C12_ClosedForGood ==
    \A o \in cleaned : ~objs[o].initialized

\* C13: in every state a session can be observed in between operations, also
\* after an initialize() that failed part-way, the session holds a
\* linear-memory handle only if it is Initialized.
C13_MemoryOnlyWhenInitialized ==
    \A o \in Objects : objs[o].memory # NoHandle => objs[o].initialized

\* C14: cleanup() runs on every exit path. Whenever initialize() fails
\* inside CDM.open, or parse_license() fails in the process-a-license flow,
\* the affected session's cleanup() has been executed by the time control
\* returns to the caller, and no session is left holding a guest instance or
\* a memory.
C14_CleanupOnEveryExit ==
    \A t \in DOMAIN threads :
        (threads[t].pc = "returned" /\ threads[t].failed)
            => /\ threads[t].obj \in cleaned
               /\ \A o \in Objects :
                     objs[o].instance = NoHandle /\ objs[o].memory = NoHandle

\* C15: when any step of initialize() fails (memory creation, instantiation,
\* export resolution, ctors-runner, context-allocator), the failure surfaces
\* as a MonalisaSessionError, the session open made is not Initialized, and
\* CDM.open registers no identifier: the registry is exactly what it was
\* before the open call.
C15_FailedInitialize ==
    [][(last'.op = "CDM.open" /\ last'.arg \in InitFailures)
          => /\ last'.exc = "MonalisaSessionError"
             /\ ~initialize(Session(last'.sid, create_store),
                            last'.arg).initialized
             /\ _sessions' = _sessions
             /\ last'.sid \notin DOMAIN _sessions']_vars

\* The ctors-runner fails in an open made while another session is
\* registered
C15_Witness ==
    /\ last.op = "CDM.open"
    /\ last.arg = "ctors"
    /\ last.exc = "MonalisaSessionError"
    /\ DOMAIN _sessions # {}
    /\ last.sid \notin DOMAIN _sessions

\* The identifier that belongs to a matched substring; none: all zero bytes
KidOfMatch(match) ==
    IF match = <<>> THEN NilUuid ELSE uuid5(NAMESPACE_DNS, match)
MatchTable == {<<c.match, KidOfMatch(c.match)>> : c \in KidCases}

\* The Key that the step has appended to the list of the session it names
AppendedKey == heap'[last'.obj][Len(heap'[last'.obj])]

\* C16: the identifier of the Key appended by a successful parse_license
\* depends on the first correlation-pattern match in the decoded license
\* text only: in any session, at any time and whatever surrounds the match,
\* it is the version-5 identifier of the matched substring, and the 16 zero
\* bytes when the text has no match.
C16_KidFromFirstMatch ==
    [][(last'.op = "CDM.parse_license" /\ last'.exc = None)
          => \A c \in KidCases :
                 CdmParseLicense(last'.sid, c.ticket)
                     => AppendedKey.kid = Lookup(MatchTable, c.match)]_vars

\* C16 witness: two sessions, one holds the Key of a ticket whose identifier
\* is followed by bytes outside ASCII, the other the all-zero identifier
C16_Witness ==
    \E o1, o2 \in Objects :
        /\ o1 # o2
        /\ Len(heap[o1]) = 1 /\ heap[o1][1].kid = Lookup(MatchTable, CoreA \o <<90>>)
        /\ Len(heap[o2]) = 1 /\ heap[o2][1].kid = NilUuid
        /\ Lookup(MatchTable, CoreA \o <<90>>) \notin
               {Lookup(MatchTable, CoreA), Lookup(MatchTable, CoreB), NilUuid}
        /\ last.op = "CDM.parse_license" /\ last.exc = None

\* C17: for every license text L that decodes as base64, the License built
\* from the decoded bytes has the same b64 form as the License built from L.
C17_SameCanonicalText ==
    (/\ probe.at = "License(raw)"
     /\ probe.input.kind = "str"
     /\ b64decode(probe.input.val).ok)
        => /\ raw(probe.license) = b64decode(probe.input.val).bytes
           /\ b64(probe.again) = b64(probe.license)

\* C18: base64-decoding the b64 form of a License, whatever it was built
\* from, gives its raw bytes, and the raw form of a License built from bytes
\* is those bytes.
C18_TwoFormsAgree ==
    probe.at # "input"
        => /\ b64decode(b64(probe.license)).ok
           /\ b64decode(b64(probe.license)).bytes = raw(probe.license)
           /\ probe.input.kind = "bytes"
                  => raw(probe.license) = probe.input.val

\* C18 witness: a License from text that is not base64, one from base64
\* text that ends in a line feed, and one from bytes outside ASCII
C18_Witness ==
    /\ probe.at = "License"
    /\ \/ probe.input = [kind |-> "str", val |-> <<81, 233>>]
       \/ probe.input = [kind |-> "str", val |-> <<81, 81, 61, 61, 10>>]
       \/ probe.input = [kind |-> "bytes", val |-> <<255, 0, 65>>]
    /\ b64(probe.license) # <<>>

\* C19: mutations of the registry are serialized: under every interleaving
\* of open() and close() calls of several threads on one CDM no close call
\* raises, no session is cleaned up or deregistered a second time, and an
\* identifier that open returned leaves the registry only by a close of it.
C19_RegistrySerialized ==
    [][/\ last'.op = "CDM.close" => last'.exc = None
       /\ \A t \in Threads :
             (threads[t].pc = "close:62:cleanup" /\ threads'[t].pc = "close:63")
                 => threads[t].obj \notin cleaned
       /\ \A session_id \in DOMAIN _sessions \ DOMAIN _sessions' :
             \E t \in Threads :
                 /\ threads[t].pc = "close:63" /\ threads'[t].pc = "idle"
                 /\ threads[t].sid = session_id]_vars

\* The NUL-terminated string at an address of the memory: empty when the
\* address is zero or outside the memory
StringAt(memory, ptr) ==
    IF ptr = 0 \/ ptr >= Len(memory) THEN <<>>
    ELSE LET ends == {a \in ptr..Len(memory) :
                         a = Len(memory) \/ memory[a + 1] = 0}
             end == CHOOSE a \in ends : \A b \in ends : a <= b
         IN  Utf8Decode(SubSeq(memory, ptr + 1, end)).text

\* C20: _ccall interprets the raw result by the requested kind: for int it
\* returns the value unchanged, for bool its boolean coercion, and for str
\* the NUL-terminated UTF-8 string in guest memory at that address (empty
\* when the address is zero or outside the memory).
C20_ResultByKind ==
    (probe.at = "_ccall" /\ probe.out.raised = None)
        => LET value == probe.out.value IN
           /\ probe.return_type = PyType("int")
                  => value.class = "int" /\ value.val = probe.result
           /\ probe.return_type = PyType("bool")
                  => value.class = "bool" /\ value.val = (probe.result # 0)
           /\ probe.return_type = PyType("str")
                  => /\ value.class = "str"
                     /\ value.text = StringAt(probe.memory, probe.result)

\* Where the log of the call holds an invocation of the export
LogOf(export) == {i \in DOMAIN probe.log : probe.log[i].export = export}

\* The call has a string or a list among its arguments
HasReference ==
    \E i \in DOMAIN probe.args :
        isinstance(probe.args[i], "str") \/ isinstance(probe.args[i], "list")

\* C21: in every _ccall stackSave is invoked exactly once, before the first
\* stackAlloc, when a string or list argument is present and not at all
\* otherwise; when a snapshot was taken, stackRestore is invoked once, with
\* the snapshot, after the guest call has returned. This for every value
\* stackSave returns.
C21_SaveOnceRestoreOnce ==
    probe.at = "returned"
        => /\ Cardinality(LogOf("stackSave")) = IF HasReference THEN 1 ELSE 0
           /\ \A a \in LogOf("stackAlloc") :
                 \E v \in LogOf("stackSave") : v < a
           /\ \A v \in LogOf("stackSave") :
                 /\ Cardinality(LogOf("stackRestore")) = 1
                 /\ \A r \in LogOf("stackRestore") :
                       /\ probe.log[r].arg = probe.log[v].ret
                       /\ \A g \in LogOf("guest") : g < r
           /\ LogOf("stackSave") = {} => LogOf("stackRestore") = {}

\* C23: for a string argument the host allocates 4 * len + 1 bytes and
\* stores only inside [ptr, ptr + 4 * len + 1): the whole UTF-8 encoding of
\* the string from ptr on, uncut, and one NUL byte right after it.
C23_StringInsideRegion ==
    probe.write.kind = "str"
        => LET w == probe.write
               encoded == Utf8Encode(w.arg)
           IN  /\ w.size = 4 * Len(w.arg) + 1
               /\ \A i \in DOMAIN w.stores :
                     w.stores[i][1] >= w.ptr /\ w.stores[i][1] < w.ptr + w.size
               /\ Len(w.stores) = Len(encoded) + 1
               /\ \A i \in DOMAIN w.stores :
                     /\ w.stores[i][1] = w.ptr + i - 1
                     /\ w.stores[i][2] = IF i <= Len(encoded) THEN encoded[i] ELSE 0

\* C23 witness: a string of one four-byte character fills its region of
\* five bytes, and a string of a two-byte and a three-byte character has
\* been stored too
C23_Witness ==
    /\ probe.write.kind = "str"
    /\ probe.write.arg = <<128512>>
    /\ probe.write.size = 5
    /\ probe.write.stores[5] = <<probe.write.ptr + 4, 0>>
    /\ probe.write.stores[1] = <<probe.write.ptr, 240>>
    /\ probe.args[1] = PyStr(<<233, 8364>>)

\* C27: across a sequence of parse_license calls on one session, whether a
\* call succeeds, gets a non-zero code or fails because the guest call
\* raises, the guest stack pointer after the call is what it was before.
C27_StackBalanced ==
    (probe.at \in {"returned", "raised"} /\ probe.args = SetLicenseArgs)
        => probe.sp = probe.entry_sp

\* The lines of initialize() in the order of the source
InitOrder ==
    <<"Memory", "_write_i32", "_build_imports", "Instance", "exports",
      "___wasm_call_ctors", "_monalisa_context_alloc", "_initialized">>

\* C22: initialize() takes its steps in a fixed order: memory, the write of
\* DYNAMIC_BASE at DYNAMICTOP_PTR, imports, instance, exports, the
\* ctors-runner, the context allocator whose return value becomes the guest
\* context; the session is marked Initialized only after the context
\* allocator has returned, and no guest export is invoked before the
\* dynamic-top cell is written.
C22_InitializeOrder ==
    LET log == probe.log
        steps == [i \in DOMAIN log |-> log[i].export]
    IN  /\ Len(log) <= Len(InitOrder)
        /\ steps = SubSeq(InitOrder, 1, Len(log))
        /\ (\E i \in DOMAIN log :
                log[i].export \in {"___wasm_call_ctors", "_monalisa_context_alloc"})
              => /\ DYNAMICTOP_PTR % 4 = 0
                 /\ WordAt(probe.words, DYNAMICTOP_PTR) = DYNAMIC_BASE
        /\ (\E i \in DOMAIN log : log[i].export = "_initialized")
              => /\ probe.self.initialized
                 /\ probe.self.ctx = log[7].ret
        /\ (probe.at \in {"139", "143", "146", "149", "152", "165", "166", "167"})
              => ~probe.self.initialized

\* C22 witness: a second initialize() call, on a cleaned-up object, has
\* returned with all eight steps taken
C22_Witness ==
    /\ probe.at = "returned"
    /\ probe.ncalls = 2
    /\ Len(probe.log) = 8
    /\ probe.self.initialized
    /\ probe.self.ctx = "guest_ctx_2"

\* C24: for all 32-bit dest, src and count the bulk-memory-copy import
\* returns dest, touches no byte outside the memory, leaves byte dest + i,
\* for every i < count with dest + i and src + i inside the memory, equal to
\* what byte src + i held before the call (overlapping ranges too), and
\* leaves every other byte as it was.
C24_MemcpyClamped ==
    /\ probe.at # "fault"
    /\ probe.at = "returned"
          => LET copied == {i \in 0..(probe.num - 1) :
                               /\ probe.dest + i \in Addresses
                               /\ probe.src + i \in Addresses}
             IN  /\ probe.out.ret = probe.dest
                 /\ probe.out.outside = {}
                 /\ \A i \in copied :
                       probe.out.memory[probe.dest + i] = probe.memory[probe.src + i]
                 /\ \A a \in Addresses \ {probe.dest + i : i \in copied} :
                       probe.out.memory[a] = probe.memory[a]

\* The count and the size that environ_sizes_get has stored
StoredCount == WordAt(probe.words, probe.penviron_count)
StoredSize == WordAt(probe.words, probe.penviron_buf_size)

\* The pointer environ_get has stored for string i, counted from 0
StoredPointer(i) == WordAt(probe.words, probe.environ_ptr + 4 * i)

\* C25: the two environment imports agree. environ_sizes_get stores the
\* number of strings and the sum of their lengths plus one each;
\* environ_get stores that many pointers at ptrArrayAddr + 4 * i and that
\* many bytes from bufAddr on; pointer i is the address of string i, the
\* strings lie back to back, each ends in NUL, and none reaches past
\* bufAddr + size.
C25_EnvironAgree ==
    /\ probe.at # "start"
          => /\ StoredCount = 7
             /\ StoredSize = 13 + 16 + 6 + 5 + 19 + 16 + 16 + 7
    /\ probe.at = "returned"
          => /\ DOMAIN probe.words =
                    {Shr(probe.penviron_count, 2), Shr(probe.penviron_buf_size, 2)}
                       \cup {Shr(probe.environ_ptr + 4 * i, 2) :
                                i \in 0..(StoredCount - 1)}
             /\ DOMAIN probe.bytes =
                    probe.environ_buf..(probe.environ_buf + StoredSize - 1)
             /\ StoredPointer(0) = probe.environ_buf
             /\ \A i \in 0..(StoredCount - 1) :
                   LET string == get_env_strings[i + 1]
                       p == StoredPointer(i)
                       next == IF i + 1 < StoredCount THEN StoredPointer(i + 1)
                               ELSE probe.environ_buf + StoredSize
                   IN  /\ \A k \in 1..Len(string) :
                             probe.bytes[p + k - 1] = string[k] /\ string[k] # 0
                       /\ probe.bytes[p + Len(string)] = 0
                       /\ next = p + Len(string) + 1

\* C25 witness: environ_get has returned after filling a buffer at an odd
\* address; the last byte of the 98 is the NUL of the seventh string
C25_Witness ==
    /\ probe.at = "returned"
    /\ probe.environ_buf = 129
    /\ probe.index = 7
    /\ probe.bytes[129 + 97] = 0
    /\ probe.bytes[129 + 96] = 109
    /\ StoredPointer(6) = 129 + 81

\* C26: after any sequence of CDM.open, parse_license, get_keys and close
\* calls every session in the registry is Initialized, holds a memory handle
\* and a guest context and is stored under its own session_id; a session
\* that is not Initialized cannot be reached through the registry.
C26_RegistryHoldsLiveSessions ==
    /\ \A session_id \in DOMAIN _sessions :
          LET self == objs[_sessions[session_id]] IN
          /\ self.initialized
          /\ self.memory # NoHandle
          /\ self.ctx # None
          /\ self.session_id = session_id
    /\ \A o \in Objects :
          ~objs[o].initialized
              => \A session_id \in DOMAIN _sessions : _sessions[session_id] # o

\* C26 witness: one session was closed, another is registered and has
\* parsed a license
C26_Witness ==
    /\ cleaned # {}
    /\ \E session_id \in DOMAIN _sessions :
          /\ _sessions[session_id] \notin cleaned
          /\ Len(heap[_sessions[session_id]]) = 1
    /\ last.op = "CDM.get_keys"

====
